---- MODULE Spec2Model ----
(***************************************************************************)
(* Model of nrrdify's DicomVolume (src/nrrdify/dicomvolume.py): the slice  *)
(* list of one series, its classification flags, the temporal groups, and  *)
(* the operations addSlice, sortSlices, split4D, sortSlices4D,             *)
(* getSimpleITKImage, getSimpleITK4DImage, getOrientation and              *)
(* writeProtocol; and of the Walker (src/nrrdify/walker.py) that scans a   *)
(* folder, collects the volumes and converts or checks each of them.       *)
(*                                                                         *)
(* Numbers are fixed point.  ImagePositionPatient is in 1/100 mm, the      *)
(* direction cosines of ImageOrientationPatient are in 1/100, so a slice   *)
(* location (dot product with the cross product of two cosine vectors) is  *)
(* in 1/1000000 mm.  A discriminant value is kept in tenths.               *)
(***************************************************************************)
EXTENDS Integers, Sequences, FiniteSets, TLC

\* Largest number of slices one volume receives.
MaxSlices == 4

\* Counts per millimetre of a position, counts per unit of a direction cosine.
PosScale == 10 * 10
CosScale == 10 * 10
LocScale == PosScale * CosScale * CosScale

Abs(x) == IF x < 0 THEN 0 - x ELSE x

Range(s) == {s[i] : i \in 1..Len(s)}

(***************************************************************************)
(* The DICOM files (pydicom datasets) that can be offered to a volume.     *)
(* A missing attribute is the empty tuple (position, orientation), FALSE   *)
(* (PatientName, StudyDate) or a value of type "none" (discriminant tags). *)
(***************************************************************************)
NoValue == [t |-> "none", n |-> 0, s |-> <<>>]
IntValue(n) == [t |-> "int", n |-> n, s |-> <<>>]
\* a float, given in tenths
FloatValue(n) == [t |-> "float", n |-> n, s |-> <<>>]
\* a string, given as its characters
StrValue(s) == [t |-> "str", n |-> 0, s |-> s]
\* a byte string: 8 bytes packing the double n/10, or (n = -1) any other length
BytesValue(n) == [t |-> "bytes", n |-> n, s |-> <<>>]

AX == <<100, 0, 0, 0, 100, 0>>
AX99 == <<99, 0, 0, 0, 100, 0>>
AX90 == <<90, 0, 0, 0, 100, 0>>
\* a sagittal and a coronal plane
SAG == <<0, 100, 0, 0, 0, 0 - 100>>
COR == <<100, 0, 0, 0, 0, 0 - 100>>

DicomFile(uid, ipp, iop, name, date, b, tpi) ==
  [SeriesInstanceUID |-> uid,
   ImagePositionPatient |-> ipp, ImageOrientationPatient |-> iop,
   PatientName |-> name, StudyDate |-> date,
   DiffusionBValue |-> b, TemporalPositionIdentifier |-> tpi]

\* Eight series: a diffusion series with two b-values at repeated locations,
\* a plain series, a series with orientation defects, a series with missing
\* mandatory attributes (these two carry discriminant values of every type
\* that split4D tells apart), two interleaved stacks of three locations, a
\* three-plane localizer, and a sagittal dynamic series of two frames of four
\* locations in which one slice of the first frame carries the b-value of
\* the second, and a series with slices at 0 mm and at 0.03 mm (positions
\* whose difference in double precision is the double 0.03 itself).
Files ==
  << DicomFile("DWI", <<0, 0, 0>>,   AX,   TRUE,  TRUE,  IntValue(0),      IntValue(1)),
     DicomFile("DWI", <<0, 0, 50>>,  AX,   TRUE,  TRUE,  IntValue(0),      IntValue(1)),
     DicomFile("DWI", <<0, 0, 0>>,   AX,   TRUE,  TRUE,  IntValue(800),    IntValue(1)),
     DicomFile("DWI", <<0, 0, 50>>,  AX,   TRUE,  TRUE,  FloatValue(8000), IntValue(2)),
     DicomFile("DWI", <<0, 0, 100>>, AX,   TRUE,  TRUE,  NoValue,          IntValue(2)),
     DicomFile("T1",  <<0, 0, 0>>,   AX,   TRUE,  TRUE,  NoValue,          IntValue(1)),
     DicomFile("T1",  <<0, 0, 50>>,  AX,   TRUE,  TRUE,  NoValue,          IntValue(1)),
     DicomFile("T1",  <<0, 0, 102>>, AX,   TRUE,  TRUE,  NoValue,          IntValue(1)),
     DicomFile("T1",  <<0, 0, 150>>, AX99, TRUE,  TRUE,  NoValue,          IntValue(1)),
     DicomFile("T1",  <<0, 0, 52>>,  AX,   TRUE,  TRUE,  NoValue,          IntValue(2)),
     DicomFile("ORI", <<0, 0, 0>>,   AX,   TRUE,  TRUE,  IntValue(5),      BytesValue(50)),
     DicomFile("ORI", <<0, 0, 50>>,  AX,   TRUE,  TRUE,  StrValue(<<"5">>), StrValue(<<" ", "5", " ">>)),
     DicomFile("ORI", <<0, 0, 100>>, AX90, TRUE,  TRUE,  FloatValue(50),   FloatValue(55)),
     DicomFile("ORI", <<0, 0, 150>>, <<>>, TRUE,  TRUE,  StrValue(<<"b", "5">>), BytesValue(0 - 1)),
     DicomFile("REQ", <<0, 0, 0>>,   AX,   TRUE,  TRUE,  IntValue(12),     IntValue(3000)),
     DicomFile("REQ", <<0, 0, 50>>,  AX,   TRUE,  TRUE,  StrValue(<<"1", "2">>), FloatValue(30000)),
     DicomFile("REQ", <<0, 0, 100>>, AX,   FALSE, TRUE,  FloatValue(120),  StrValue(<<"3", "0", "0", "0">>)),
     DicomFile("REQ", <<>>,          AX,   TRUE,  TRUE,  BytesValue(120),  FloatValue(20005)),
     DicomFile("REQ", <<0, 0, 100>>, AX,   TRUE,  FALSE, StrValue(<<"z">>), IntValue(2000)),
     DicomFile("STK", <<0, 0, 0>>,   AX,   TRUE,  TRUE,  IntValue(100),    IntValue(1)),
     DicomFile("STK", <<0, 0, 50>>,  AX,   TRUE,  TRUE,  IntValue(100),    IntValue(1)),
     DicomFile("STK", <<0, 0, 100>>, AX,   TRUE,  TRUE,  IntValue(100),    IntValue(1)),
     DicomFile("STK", <<0, 0, 0>>,   AX,   TRUE,  TRUE,  IntValue(800),    IntValue(2)),
     DicomFile("STK", <<0, 0, 50>>,  AX,   TRUE,  TRUE,  IntValue(800),    IntValue(2)),
     DicomFile("STK", <<0, 0, 100>>, AX,   TRUE,  TRUE,  IntValue(800),    IntValue(2)),
     DicomFile("LOC", <<0, 0, 0>>,   SAG,  TRUE,  TRUE,  NoValue,          IntValue(1)),
     DicomFile("LOC", <<0, 0, 0>>,   COR,  TRUE,  TRUE,  NoValue,          IntValue(1)),
     DicomFile("LOC", <<0, 0, 0>>,   AX,   TRUE,  TRUE,  NoValue,          IntValue(1)),
     DicomFile("DYN", <<0, 0, 0>>,   SAG,  TRUE,  TRUE,  IntValue(0),      IntValue(1)),
     DicomFile("DYN", <<50, 0, 0>>,  SAG,  TRUE,  TRUE,  IntValue(0),      IntValue(1)),
     DicomFile("DYN", <<100, 0, 0>>, SAG,  TRUE,  TRUE,  IntValue(1000),   IntValue(1)),
     DicomFile("DYN", <<150, 0, 0>>, SAG,  TRUE,  TRUE,  IntValue(0),      IntValue(1)),
     DicomFile("DYN", <<0, 0, 0>>,   SAG,  TRUE,  TRUE,  IntValue(1000),   IntValue(2)),
     DicomFile("DYN", <<50, 0, 0>>,  SAG,  TRUE,  TRUE,  IntValue(1000),   IntValue(2)),
     DicomFile("DYN", <<100, 0, 0>>, SAG,  TRUE,  TRUE,  IntValue(1000),   IntValue(2)),
     DicomFile("DYN", <<150, 0, 0>>, SAG,  TRUE,  TRUE,  IntValue(1000),   IntValue(2)),
     DicomFile("EDG", <<0, 0, 0>>,   AX,   TRUE,  TRUE,  IntValue(0),      IntValue(1)),
     DicomFile("EDG", <<0, 0, 3>>,   AX,   TRUE,  TRUE,  IntValue(0),      IntValue(1)),
     DicomFile("EDG", <<0, 0, 0>>,   AX,   TRUE,  TRUE,  IntValue(800),    IntValue(2)),
     DicomFile("EDG", <<0, 0, 50>>,  AX,   TRUE,  TRUE,  IntValue(800),    IntValue(2)) >>

FileIds == DOMAIN Files

SeriesUIDs == {Files[f].SeriesInstanceUID : f \in FileIds}

\* The series of the interleaved stacks and the dynamic series are offered
\* to their volumes whole; the files of the other series are offered one at
\* a time.
StackSeries == "STK"
DynamicSeries == "DYN"
\* The series with two slices 0.03 mm apart has a specification of its own.
EdgeSeries == "EDG"

SplitTags == {"DiffusionBValue", "TemporalPositionIdentifier"}

\* The private b-value element (0019,100c), and its value in file f: the
\* files of the second frame of the dynamic series hold it.
PrivateBValueTag == "0x0019100c"

PrivateBValue(f) ==
  IF Files[f].SeriesInstanceUID = DynamicSeries
       /\ Files[f].TemporalPositionIdentifier = IntValue(2)
  THEN IntValue(1000)
  ELSE NoValue

\* getattr(s, splitTag, None)
TagValue(f, tag) ==
  IF tag = "DiffusionBValue" THEN Files[f].DiffusionBValue
  ELSE IF tag = PrivateBValueTag THEN PrivateBValue(f)
  ELSE Files[f].TemporalPositionIdentifier

(***************************************************************************)
(* DicomVolume.__init__                                                    *)
(***************************************************************************)
NoGroups == [isNone |-> TRUE, groups |-> <<>>]

NewVolume ==
  [slices |-> <<>>, slices4D |-> NoGroups,
   is_valid |-> TRUE, is_equidistant |-> TRUE, is_sorted |-> FALSE,
   n_slices |-> 0, is_4D |-> FALSE, is_sorted4D |-> FALSE,
   split_tag |-> "None", n_pos |-> 1]

(***************************************************************************)
(* addSlice                                                                *)
(***************************************************************************)
addSlice(v, f) ==
  [v EXCEPT !.slices = Append(@, f), !.is_sorted = FALSE, !.is_sorted4D = FALSE]

(***************************************************************************)
(* numpy.allclose(a, b, rtol, atol): |a - b| <= atol + rtol * |b|, on      *)
(* fixed-point numbers; every term is multiplied by the same factor.       *)
(***************************************************************************)
\* rtol = 1e-2, atol = 1e-6, a and b direction cosines (in 1/CosScale)
CloseOrientation(a, b) ==
  1000000 * Abs(a - b) <= CosScale + 10000 * Abs(b)

\* rtol = 5e-2, atol = 1e-8, a and b locations (in 1/LocScale mm)
CloseStep(a, b) ==
  100 * Abs(a - b) <= 1 + 5 * Abs(b)

\* rtol = 1e-2, atol = 1e-8, a and b locations (in 1/LocScale mm)
CloseStep4D(a, b) ==
  100 * Abs(a - b) <= 1 + Abs(b)

\* 0.03 mm as a location
ZeroDelta == (3 * LocScale) \div 100

(***************************************************************************)
(* _check_valid                                                            *)
(***************************************************************************)
HasRequiredTags(f) ==
  /\ Len(Files[f].ImagePositionPatient) > 0
  /\ Files[f].PatientName
  /\ Files[f].StudyDate

AllCloseOrientation(val, val2) ==
  \A i \in 1..6 : CloseOrientation(val[i], val2[i])

\* check_valid comparing the orientations from the third slice on (an
\* off-by-one in the slice of the list).
check_valid_SkipSecond(slices) ==
  /\ Files[slices[1]].PatientName
  /\ Files[slices[1]].StudyDate
  /\ \A i \in 1..Len(slices) : HasRequiredTags(slices[i])
  /\ Len(Files[slices[1]].ImageOrientationPatient) > 0
  /\ \A i \in 3..Len(slices) :
       /\ Len(Files[slices[i]].ImageOrientationPatient) > 0
       /\ AllCloseOrientation(Files[slices[1]].ImageOrientationPatient,
                              Files[slices[i]].ImageOrientationPatient)

\* check_valid looking for PatientName and StudyDate on the first slice only.
check_valid_FirstSliceOnly(slices) ==
  /\ Files[slices[1]].PatientName
  /\ Files[slices[1]].StudyDate
  /\ \A i \in 1..Len(slices) : Len(Files[slices[i]].ImagePositionPatient) > 0
  /\ Len(Files[slices[1]].ImageOrientationPatient) > 0
  /\ \A i \in 2..Len(slices) :
       /\ Len(Files[slices[i]].ImageOrientationPatient) > 0
       /\ AllCloseOrientation(Files[slices[1]].ImageOrientationPatient,
                              Files[slices[i]].ImageOrientationPatient)

check_valid(slices) ==
  /\ Files[slices[1]].PatientName
  /\ Files[slices[1]].StudyDate
  /\ \A i \in 1..Len(slices) : HasRequiredTags(slices[i])
  /\ Len(Files[slices[1]].ImageOrientationPatient) > 0
  /\ \A i \in 2..Len(slices) :
       /\ Len(Files[slices[i]].ImageOrientationPatient) > 0
       /\ AllCloseOrientation(Files[slices[1]].ImageOrientationPatient,
                              Files[slices[i]].ImageOrientationPatient)

(***************************************************************************)
(* _get_slice_locations: the normal is taken from the first slice of the   *)
(* list that is passed in.                                                 *)
(***************************************************************************)
Cross(o) ==
  << o[2] * o[6] - o[3] * o[5],
     o[3] * o[4] - o[1] * o[6],
     o[1] * o[5] - o[2] * o[4] >>

Dot(p, z) == p[1] * z[1] + p[2] * z[2] + p[3] * z[3]

\* The location of file f along the normal of file ref.
Location(f, ref) ==
  Dot(Files[f].ImagePositionPatient, Cross(Files[ref].ImageOrientationPatient))

\* Whether _get_slice_locations(slices) can be evaluated (it raises otherwise).
LocationsDefined(slices) ==
  /\ Len(slices) > 0
  /\ Len(Files[slices[1]].ImageOrientationPatient) > 0
  /\ \A i \in 1..Len(slices) : Len(Files[slices[i]].ImagePositionPatient) > 0

get_slice_locations(slices) ==
  [i \in 1..Len(slices) |-> Location(slices[i], slices[1])]

(***************************************************************************)
(* sorted(...): a stable sort.  Insert places x behind every element whose *)
(* key is not greater, so equal keys keep their order.                     *)
(***************************************************************************)
RECURSIVE Insert(_, _, _)
Insert(x, s, ref) ==
  IF s = <<>> THEN <<x>>
  ELSE IF Location(x, ref) < Location(s[Len(s)], ref)
       THEN Append(Insert(x, SubSeq(s, 1, Len(s) - 1), ref), s[Len(s)])
       ELSE Append(s, x)

RECURSIVE SortFrom(_, _, _)
SortFrom(s, i, ref) ==
  IF i = 0 THEN <<>> ELSE Insert(s[i], SortFrom(s, i - 1, ref), ref)

\* SortByLocation leaving out the last slice of the list (an off-by-one).
SortByLocation_DropLast(slices) == SortFrom(slices, Len(slices) - 1, slices[1])

\* [f for (d, f) in sorted(zip(locations, slices), key=lambda s: s[0])]
SortByLocation(slices) == SortFrom(slices, Len(slices), slices[1])

\* np.diff(np.array(locations)) of a list that is sorted by location
Diff(srt, ref) ==
  [i \in 1..(Len(srt) - 1) |-> Location(srt[i + 1], ref) - Location(srt[i], ref)]

\* np.diff(np.array(sorted(locations)))
DeltaSlices(slices) == Diff(SortByLocation(slices), slices[1])

\* delta_slices[delta_slices > 0.03]
Boundaries(delta) == SelectSeq(delta, LAMBDA d : d > ZeroDelta)

(***************************************************************************)
(* sortSlices                                                              *)
(***************************************************************************)
\* not np.allclose(boundaries, boundaries[0], rtol=5e-2)
NotEquidistant(boundaries) ==
  /\ Len(boundaries) > 0
  /\ \E i \in 1..Len(boundaries) : ~CloseStep(boundaries[i], boundaries[1])

\* Classify with the reordered list never stored (a forgotten assignment).
Classify_NoReorder(v, n_deltas, n) ==
  IF n_deltas > n - 1
  THEN IF Len(v.slices) % n > 0
       THEN [v EXCEPT !.n_slices = n, !.is_4D = TRUE, !.is_equidistant = FALSE]
       ELSE [v EXCEPT !.n_slices = n, !.is_4D = TRUE, !.is_sorted = TRUE]
  ELSE [v EXCEPT !.n_slices = n, !.is_sorted = TRUE]

\* Classify without the divisibility test on a 4D volume.
Classify_NoDivisibility(v, n_deltas, n) ==
  IF n_deltas > n - 1
  THEN [v EXCEPT !.n_slices = n, !.is_4D = TRUE, !.is_sorted = TRUE]
  ELSE [v EXCEPT !.n_slices = n, !.slices = SortByLocation(v.slices),
                 !.is_sorted = TRUE]

\* Classify counting the boundaries as the slices (an off-by-one).
Classify_CountBoundaries(v, n_deltas, n) ==
  IF n_deltas > n - 1
  THEN IF Len(v.slices) % n > 0
       THEN [v EXCEPT !.n_slices = n, !.is_4D = TRUE, !.is_equidistant = FALSE]
       ELSE [v EXCEPT !.n_slices = n, !.is_4D = TRUE, !.is_sorted = TRUE]
  ELSE [v EXCEPT !.n_slices = n - 1, !.slices = SortByLocation(v.slices),
                 !.is_sorted = TRUE]

\* Classify reordering the slice list of a 4D volume as well.
Classify_ReorderAlways(v, n_deltas, n) ==
  IF n_deltas > n - 1
  THEN IF Len(v.slices) % n > 0
       THEN [v EXCEPT !.n_slices = n, !.is_4D = TRUE, !.is_equidistant = FALSE]
       ELSE [v EXCEPT !.n_slices = n, !.is_4D = TRUE,
                      !.slices = SortByLocation(v.slices), !.is_sorted = TRUE]
  ELSE [v EXCEPT !.n_slices = n, !.slices = SortByLocation(v.slices),
                 !.is_sorted = TRUE]

\* Classify counting every delta of the sorted locations as a boundary.
Classify_CountDeltas(v, n_deltas, n) ==
  IF n_deltas > n - 1
  THEN IF Len(v.slices) % (n_deltas + 1) > 0
       THEN [v EXCEPT !.n_slices = n_deltas + 1, !.is_4D = TRUE,
                      !.is_equidistant = FALSE]
       ELSE [v EXCEPT !.n_slices = n_deltas + 1, !.is_4D = TRUE,
                      !.is_sorted = TRUE]
  ELSE [v EXCEPT !.n_slices = n_deltas + 1, !.slices = SortByLocation(v.slices),
                 !.is_sorted = TRUE]

\* Lines 167-181: the slice count, the 4D test and the reordering.
Classify(v, n_deltas, n) ==
  IF n_deltas > n - 1
  THEN IF Len(v.slices) % n > 0
       THEN [v EXCEPT !.n_slices = n, !.is_4D = TRUE, !.is_equidistant = FALSE]
       ELSE [v EXCEPT !.n_slices = n, !.is_4D = TRUE, !.is_sorted = TRUE]
  ELSE [v EXCEPT !.n_slices = n, !.slices = SortByLocation(v.slices),
                 !.is_sorted = TRUE]

\* CheckEquidistant going on to the classification after flagging the volume
\* (a missing return).
CheckEquidistant_NoStop(v, delta_slices, boundaries) ==
  IF NotEquidistant(boundaries)
  THEN [Classify(v, Len(delta_slices), Len(boundaries) + 1)
          EXCEPT !.is_equidistant = FALSE]
  ELSE Classify(v, Len(delta_slices), Len(boundaries) + 1)

\* Lines 160-165: the equidistance check on the boundaries.
CheckEquidistant(v, delta_slices, boundaries) ==
  IF NotEquidistant(boundaries)
  THEN [v EXCEPT !.is_equidistant = FALSE]
  ELSE Classify(v, Len(delta_slices), Len(boundaries) + 1)

\* Lines 155-160: the deltas of the sorted locations and the boundaries.
CheckDeltas(v, delta_slices) ==
  CheckEquidistant(v, delta_slices, Boundaries(delta_slices))

\* sortSlices without the is_sorted guard.
sortSlices_NoGuard(v) ==
  IF Len(v.slices) < 2
  THEN [v EXCEPT !.is_sorted = TRUE, !.is_valid = TRUE, !.is_equidistant = TRUE]
  ELSE IF ~check_valid(v.slices)
  THEN [v EXCEPT !.is_valid = FALSE]
  ELSE CheckDeltas(v, DeltaSlices(v.slices))

\* sortSlices taking the short way for the empty volume only.
sortSlices_EmptyOnly(v) ==
  IF v.is_sorted THEN v
  ELSE IF Len(v.slices) < 1
  THEN [v EXCEPT !.is_sorted = TRUE, !.is_valid = TRUE, !.is_equidistant = TRUE]
  ELSE IF ~check_valid(v.slices)
  THEN [v EXCEPT !.is_valid = FALSE]
  ELSE CheckDeltas(v, DeltaSlices(v.slices))

sortSlices(v) ==
  IF v.is_sorted THEN v
  ELSE IF Len(v.slices) < 2
  THEN [v EXCEPT !.is_sorted = TRUE, !.is_valid = TRUE, !.is_equidistant = TRUE]
  ELSE IF ~check_valid(v.slices)
  THEN [v EXCEPT !.is_valid = FALSE]
  ELSE CheckDeltas(v, DeltaSlices(v.slices))

(***************************************************************************)
(* getSimpleITKImage: result.handed lists the slice lists passed to        *)
(* _getImage, result.ret is "image" or "None".                             *)
(***************************************************************************)
\* Lines 187-195, on the volume w as sortSlices left it.
ImageOf(w) ==
  IF ~(w.is_valid /\ w.is_equidistant)
  THEN [v |-> w, ret |-> "None", handed |-> <<>>]
  ELSE IF w.is_4D
  THEN [v |-> w, ret |-> "None", handed |-> <<>>]
  ELSE [v |-> w, ret |-> "image", handed |-> <<w.slices>>]

getSimpleITKImage(v) ==
  ImageOf(IF ~v.is_sorted THEN sortSlices(v) ELSE v)

(***************************************************************************)
(* split4D: normalisation of the discriminant value to a dictionary key.   *)
(* A key is an integer ("int", n), a non-integral float ("float", tenths)  *)
(* or a string ("str", characters).                                        *)
(***************************************************************************)
Digits == <<"0", "1", "2", "3", "4", "5", "6", "7", "8", "9">>

IsDigitChar(c) == \E i \in 1..10 : Digits[i] = c

DigitValue(c) == (CHOOSE i \in 1..10 : Digits[i] = c) - 1

\* str.strip()
RECURSIVE LStrip(_)
LStrip(s) ==
  IF s # <<>> /\ s[1] = " " THEN LStrip(Tail(s)) ELSE s

RECURSIVE RStrip(_)
RStrip(s) ==
  IF s # <<>> /\ s[Len(s)] = " " THEN RStrip(SubSeq(s, 1, Len(s) - 1)) ELSE s

Strip(s) == RStrip(LStrip(s))

\* str.isdigit()
IsDigit(s) == s # <<>> /\ \A i \in 1..Len(s) : IsDigitChar(s[i])

\* int(str) of a string of digits
RECURSIVE ParseInt(_)
ParseInt(s) ==
  IF s = <<>> THEN 0
  ELSE 10 * ParseInt(SubSeq(s, 1, Len(s) - 1)) + DigitValue(s[Len(s)])

\* str(n) for a natural number n
RECURSIVE DecimalChars(_)
DecimalChars(n) ==
  IF n < 10 THEN <<Digits[n + 1]>>
  ELSE Append(DecimalChars(n \div 10), Digits[(n % 10) + 1])

IntKey(n) == [k |-> "int", n |-> n, s |-> <<>>]
FloatKey(n) == [k |-> "float", n |-> n, s |-> <<>>]
StrKey(s) == [k |-> "str", n |-> 0, s |-> s]

\* max_value = None
NoMaxValue == [isNone |-> TRUE, n |-> 0]

\* Line 237: not is_string_temporal and max_value is not None and
\* temporal_position > max_value
ExceedsMax(key, max_value) ==
  /\ key.k # "str"
  /\ ~max_value.isNone
  /\ IF key.k = "int" THEN key.n > max_value.n ELSE key.n > 10 * max_value.n

\* float -> int when is_integer()
FloatToKey(n) == IF n % 10 = 0 THEN IntKey(n \div 10) ELSE FloatKey(n)

\* The value can be turned into a key (neither missing nor a failed unpack).
HasKey(val) ==
  /\ val.t # "none"
  /\ val.t = "bytes" => val.n >= 0

\* temporal_position leaving an integral float a float.
temporal_position_KeepFloat(val) ==
  CASE val.t = "float" -> FloatKey(val.n)
    [] val.t = "str" -> IF IsDigit(Strip(val.s))
                        THEN IntKey(ParseInt(Strip(val.s)))
                        ELSE StrKey(val.s)
    [] val.t = "int" -> IntKey(val.n)
    [] OTHER -> FloatToKey(val.n)

temporal_position(val) ==
  CASE val.t = "float" -> FloatToKey(val.n)
    [] val.t = "str" -> IF IsDigit(Strip(val.s))
                        THEN IntKey(ParseInt(Strip(val.s)))
                        ELSE StrKey(val.s)
    [] val.t = "int" -> IntKey(val.n)
    [] OTHER -> FloatToKey(val.n)

\* AppendToGroup putting the slice at the head of its group.
AppendToGroup_Prepend(groups, key, f) ==
  IF \E i \in 1..Len(groups) : groups[i].key = key
  THEN [i \in 1..Len(groups) |->
          IF groups[i].key = key
          THEN [groups[i] EXCEPT !.slices = <<f>> \o @]
          ELSE groups[i]]
  ELSE Append(groups, [key |-> key, slices |-> <<f>>])

\* self.slices4D[temporal_position].append(s), creating the list if needed
AppendToGroup(groups, key, f) ==
  IF \E i \in 1..Len(groups) : groups[i].key = key
  THEN [i \in 1..Len(groups) |->
          IF groups[i].key = key
          THEN [groups[i] EXCEPT !.slices = Append(@, f)]
          ELSE groups[i]]
  ELSE Append(groups, [key |-> key, slices |-> <<f>>])

\* PlaceSlice leaving out the slice it warns about (the warning's wording).
PlaceSlice_Exclude(r, key, f, max_value) ==
  IF ExceedsMax(key, max_value)
  THEN [r EXCEPT !.warned = Append(@, f)]
  ELSE [r EXCEPT !.groups = AppendToGroup(@, key, f)]

\* Lines 237-243 for slice f with key key: the warning when the key exceeds
\* max_value (r.warned lists the files it names), then the append.
PlaceSlice(r, key, f, max_value) ==
  [groups |-> AppendToGroup(r.groups, key, f),
   warned |-> IF ExceedsMax(key, max_value) THEN Append(r.warned, f) ELSE r.warned,
   ret |-> r.ret]

\* The loop of split4D from slice i on: the groups built, the files warned
\* about, and whether the loop ran to its end.
RECURSIVE SplitFrom(_, _, _, _, _)
SplitFrom(slices, i, tag, max_value, r) ==
  IF i > Len(slices) THEN [r EXCEPT !.ret = "True"]
  ELSE IF ~HasKey(TagValue(slices[i], tag))
  THEN [r EXCEPT !.ret = "False"]
  ELSE SplitFrom(slices, i + 1, tag, max_value,
                 PlaceSlice(r, temporal_position(TagValue(slices[i], tag)),
                            slices[i], max_value))

\* The volume and the return value of split4D, given the outcome r of its loop.
SplitResult(v, splitTag, r) ==
  [v |-> [v EXCEPT !.slices4D = [isNone |-> FALSE, groups |-> r.groups],
                   !.split_tag = splitTag],
   ret |-> r.ret, warned |-> r.warned]

split4D(v, splitTag, max_value) ==
  SplitResult(v, splitTag,
              SplitFrom(v.slices, 1, splitTag, max_value,
                        [groups |-> <<>>, warned |-> <<>>, ret |-> "next"]))

(***************************************************************************)
(* sortSlices4D: the loop over the temporal groups, from group t on.       *)
(* ret is "True", "False", "None" (the bare return) or "raise" (an         *)
(* exception leaves the method).                                           *)
(***************************************************************************)
\* np.any(delta_slices < 0.03)
Overlapping(delta) == \E i \in 1..Len(delta) : delta[i] < ZeroDelta

\* not np.allclose(delta_slices, delta_slices[0], rtol=1e-2)
NotEquidistant4D(delta) ==
  \E i \in 1..Len(delta) : ~CloseStep4D(delta[i], delta[1])

\* CheckGroup with the sorted list never stored (a forgotten assignment).
CheckGroup_NoSort(v, t, delta_slices) ==
  IF Overlapping(delta_slices)
  THEN [v |-> v, ret |-> "False"]
  ELSE IF Len(delta_slices) = 0
  THEN [v |-> v, ret |-> "raise"]
  ELSE IF NotEquidistant4D(delta_slices)
  THEN [v |-> [v EXCEPT !.is_equidistant = FALSE], ret |-> "None"]
  ELSE [v |-> v, ret |-> "next"]

\* Lines 265-274 for group t, whose sorted location deltas are delta_slices:
\* the volume, the return value (or "next" when the loop goes on).
CheckGroup(v, t, delta_slices) ==
  IF Overlapping(delta_slices)
  THEN [v |-> v, ret |-> "False"]
  ELSE IF Len(delta_slices) = 0
  THEN [v |-> v, ret |-> "raise"]
  ELSE IF NotEquidistant4D(delta_slices)
  THEN [v |-> [v EXCEPT !.is_equidistant = FALSE], ret |-> "None"]
  ELSE [v |-> [v EXCEPT !.slices4D.groups[t].slices = SortByLocation(@)],
        ret |-> "next"]

\* Lines 256-274 for group t.
SortGroup(v, t, slice_count) ==
  IF t > 1 /\ Len(v.slices4D.groups[t].slices) # slice_count
  THEN [v |-> v, ret |-> "False"]
  ELSE IF ~LocationsDefined(v.slices4D.groups[t].slices)
  THEN [v |-> v, ret |-> "raise"]
  ELSE CheckGroup(v, t, DeltaSlices(v.slices4D.groups[t].slices))

RECURSIVE SortGroupsFrom(_, _, _)
SortGroupsFrom(r, t, slice_count) ==
  IF r.ret # "next" THEN r
  ELSE IF t > Len(r.v.slices4D.groups)
  THEN [v |-> [r.v EXCEPT !.n_pos = Len(r.v.slices4D.groups),
                          !.is_sorted4D = TRUE],
        ret |-> "True"]
  ELSE SortGroupsFrom(SortGroup(r.v, t, slice_count), t + 1,
                      Len(r.v.slices4D.groups[1].slices))

\* sortSlices4D without the test for a volume that was never split.
sortSlices4D_NoSplitTest(v) ==
  IF v.is_sorted4D THEN [v |-> v, ret |-> "True"]
  ELSE SortGroupsFrom([v |-> v, ret |-> "next"], 1, 0)

sortSlices4D(v) ==
  IF v.is_sorted4D THEN [v |-> v, ret |-> "True"]
  ELSE IF v.slices4D.isNone THEN [v |-> v, ret |-> "False"]
  ELSE SortGroupsFrom([v |-> v, ret |-> "next"], 1, 0)

(***************************************************************************)
(* getSimpleITK4DImage, iterated to its end.  splitTag "None" is the       *)
(* default argument.  handed lists the slice lists passed to _getImage.    *)
(***************************************************************************)
Stop(w) == [v |-> w, ret |-> "None", handed |-> <<>>]

\* Lines 302-304: one (t, image, slice count) per temporal group.
YieldGroups(so) ==
  IF so.ret = "raise" THEN [v |-> so.v, ret |-> "raise", handed |-> <<>>]
  ELSE IF so.ret # "True" THEN Stop(so.v)
  ELSE [v |-> so.v, ret |-> "yield",
        handed |-> [t \in 1..Len(so.v.slices4D.groups) |->
                      so.v.slices4D.groups[t].slices]]

\* Lines 298-300, on the outcome sp of the split.
SortForImage(sp) ==
  IF sp.ret # "True" THEN Stop(sp.v)
  ELSE YieldGroups(IF ~sp.v.is_sorted4D THEN sortSlices4D(sp.v)
                   ELSE [v |-> sp.v, ret |-> "True"])

\* Lines 285-296, on the volume w as sortSlices left it.
SplitForImage(w, splitTag, max_value) ==
  IF ~(w.is_valid /\ w.is_equidistant) THEN Stop(w)
  ELSE IF ~w.is_4D THEN Stop(w)
  ELSE IF w.slices4D.isNone \/ (splitTag # "None" /\ w.split_tag # splitTag)
  THEN SortForImage(split4D(w, IF splitTag = "None" THEN "DiffusionBValue"
                               ELSE splitTag, max_value))
  ELSE SortForImage([v |-> w, ret |-> "True", warned |-> <<>>])

getSimpleITK4DImage(v, splitTag, max_value) ==
  SplitForImage(IF ~v.is_sorted THEN sortSlices(v) ELSE v, splitTag, max_value)

(***************************************************************************)
(* getOrientation: the label, or "raise" for an AssertionError or an       *)
(* IndexError.  image_orientation[i] of the code is io[i + 1] here.        *)
(***************************************************************************)
(***************************************************************************)
(* _compute_z_indices, get_z_index and get_temporal_position.  z is the    *)
(* field z_indices: None, or a dictionary from the SOPInstanceUID of a     *)
(* slice (its file) to the tuple (idx,) or (idx, t).  A result holds the   *)
(* volume, the field, and the value returned or "raise" (ValueError,       *)
(* KeyError or IndexError).                                                *)
(***************************************************************************)
NoIndices == [isNone |-> TRUE, map |-> <<>>]

\* The last place of file f in the list (a later entry of a dictionary
\* replaces an earlier one with the same key).
LastPlace(list, f) ==
  CHOOSE i \in 1..Len(list) :
    list[i] = f /\ \A j \in (i + 1)..Len(list) : list[j] # f

\* The last group that holds file f.
LastGroup(groups, f) ==
  CHOOSE t \in 1..Len(groups) :
    /\ f \in Range(groups[t].slices)
    /\ \A u \in (t + 1)..Len(groups) : f \notin Range(groups[u].slices)

\* Line 321: {s.get('SOPInstanceUID'): (idx,) for idx, s in enumerate(slices)}
Indices3D(slices) ==
  [f \in Range(slices) |-> <<LastPlace(slices, f) - 1>>]

\* Lines 316-319: (idx, t) for the slices of the groups.
Indices4D(groups) ==
  [f \in UNION {Range(groups[t].slices) : t \in 1..Len(groups)} |->
     << LastPlace(groups[LastGroup(groups, f)].slices, f) - 1,
        groups[LastGroup(groups, f)].key >>]

\* Lines 313-321, on the volume w as sortSlices left it.
IndicesOf(w) ==
  IF w.is_4D
  THEN IF ~w.is_sorted4D
       THEN [v |-> w, z |-> NoIndices, ret |-> "raise"]
       ELSE [v |-> w, ret |-> "None",
             z |-> [isNone |-> FALSE, map |-> Indices4D(w.slices4D.groups)]]
  ELSE [v |-> w, ret |-> "None",
        z |-> [isNone |-> FALSE, map |-> Indices3D(w.slices)]]

compute_z_indices(v, z) ==
  IF ~z.isNone THEN [v |-> v, z |-> z, ret |-> "None"]
  ELSE IndicesOf(IF ~v.is_sorted THEN sortSlices(v) ELSE v)

\* self.z_indices[sopinstanceuid][i] on the outcome c of the computation;
\* i is 1 for the index and 2 for the temporal position.
Lookup(c, uid, i) ==
  IF c.ret = "raise" THEN [v |-> c.v, z |-> c.z, ret |-> "raise", value |-> 0]
  ELSE IF uid \notin DOMAIN c.z.map
  THEN [v |-> c.v, z |-> c.z, ret |-> "raise", value |-> 0]
  ELSE IF i > Len(c.z.map[uid])
  THEN [v |-> c.v, z |-> c.z, ret |-> "raise", value |-> 0]
  ELSE [v |-> c.v, z |-> c.z, ret |-> "value", value |-> c.z.map[uid][i]]

get_z_index(v, z, sopinstanceuid) ==
  Lookup(compute_z_indices(v, z), sopinstanceuid, 1)

get_temporal_position(v, z, sopinstanceuid) ==
  IF ~v.is_4D THEN [v |-> v, z |-> z, ret |-> "value", value |-> 0]
  ELSE Lookup(compute_z_indices(v, z), sopinstanceuid, 2)

\* np.abs(ImageOrientationPatient)
AbsAll(o) == [i \in 1..Len(o) |-> Abs(o[i])]

\* Lines 355-360 on the absolute cosines io.
OrientationLabel(io) ==
  IF io[4] >= io[1] THEN "sag"
  ELSE IF Len(io) < 8 THEN "raise"
  ELSE IF io[5] >= io[8] THEN "tra"
  ELSE "cor"

getOrientation(v) ==
  IF Len(v.slices) = 0
  THEN [v |-> v, ret |-> "raise"]
  ELSE IF Len(Files[v.slices[1]].ImageOrientationPatient) = 0
  THEN [v |-> v, ret |-> "raise"]
  ELSE [v |-> v,
        ret |-> OrientationLabel(AbsAll(Files[v.slices[1]].ImageOrientationPatient))]

(***************************************************************************)
(* writeProtocol: the volume, the files still holding element (0028,0013)  *)
(* out of the set els, and the datasets written to the protocol file.      *)
(***************************************************************************)
\* The files whose dataset holds element (0028,0013) when it is read.
Carries00280013 == {6}

\* DropElement taking the element out of every dataset.
DropElement_Everywhere(els, slices) == {}

\* Lines 376-378: del dicfile[0x00280013] for the slices that hold it.
DropElement(els, slices) == els \ Range(slices)

\* Lines 374-379, on the volume w as sortSlices left it.
ProtocolOf(w, els) ==
  [v |-> w, elements |-> DropElement(els, w.slices), written |-> w.slices]

writeProtocol(v, els) ==
  ProtocolOf(IF ~v.is_sorted THEN sortSlices(v) ELSE v, els)

(***************************************************************************)
(* Walker (src/nrrdify/walker.py).  The walker w is its configuration, the *)
(* file system it writes to, the combined images it has composed and its   *)
(* counter.  The options 'format',                                         *)
(* 'structure', 'process_per_folder' and 'output_writer' keep their        *)
(* defaults ('nrrd', None, False, None): one folder is scanned and the     *)
(* images are written to the destination folder itself.                    *)
(***************************************************************************)
\* The working directory of the program and a destination folder.
Cwd == "."
OutDir == "out"

\* No temporal suffix in a file name.
NoPosition == [k |-> "none", n |-> 0, s |-> <<>>]

\* A file name: the name built from the descriptor or given with --name,
\* the suffix ' (%d)' of a volume index (0: no suffix), and the suffix
\* prefix + str(position) of a temporal position.
FileName(base, idx, pos) == [base |-> base, idx |-> idx, pos |-> pos]

\* os.path.join(dir, name) + ext
Path(dir, name, ext) == [dir |-> dir, name |-> name, ext |-> ext]

\* Walker(**kwargs) as main builds it, and the file system at the start.
Walker(overwrite, split_tag, split_3D, dump_protocol, combine4d, files) ==
  [config |-> [overwrite |-> overwrite, split_tag |-> split_tag,
               split_3D |-> split_3D, dump_protocol |-> dump_protocol,
               combine4d |-> combine4d],
   fs |-> [dirs |-> {Cwd, OutDir}, files |-> files, written |-> <<>>],
   composed |-> <<>>,
   counter |-> 0]

\* DicomVolume.build_filename: the descriptor of the first slice; the name
\* of a series stands for '<patient>-<date>-<number>. <description>'.
build_filename(v) == Files[v.slices[1]].SeriesInstanceUID

\* sitk.WriteImage(im, nrrd_fname)
WriteImage(w, nrrd_fname) ==
  [w EXCEPT !.fs.files = @ \cup {nrrd_fname},
            !.fs.written = Append(@, nrrd_fname)]

\* Lines 263-283.  os.path.isfile(fname) looks for the bare file name in the
\* working directory.
store_image(w, destination, fname) ==
  IF destination # "" /\ destination \notin w.fs.dirs
  THEN WriteImage([w EXCEPT !.fs.dirs = @ \cup {destination}],
                  Path(destination, fname, "nrrd"))
  ELSE IF Path(Cwd, fname, "") \in w.fs.files
  THEN IF w.config.overwrite
       THEN WriteImage(w, Path(destination, fname, "nrrd"))
       ELSE w
  ELSE WriteImage(w, Path(destination, fname, "nrrd"))

\* The tags, and the max_value arguments, of lines 204, 210 and 216.
ChainTags == <<"DiffusionBValue", PrivateBValueTag, "TemporalPositionIdentifier">>

ChainMaxValues ==
  <<[isNone |-> FALSE, n |-> 2000], [isNone |-> FALSE, n |-> 2000], NoMaxValue>>

\* Lines 204-223: 'split4D(tag) and sortSlices4D()' for the tags of the chain
\* from the i-th on.  tried lists the tags passed to split4D; ret is "True",
\* "False" (line 223) or "raise".
RECURSIVE TryTags(_, _, _)
RECURSIVE TrySort(_, _, _)
RECURSIVE TrySorted(_, _, _)
TryTags(v, i, tried) ==
  IF i > Len(ChainTags) THEN [v |-> v, ret |-> "False", tried |-> tried]
  ELSE TrySort(split4D(v, ChainTags[i], ChainMaxValues[i]), i,
               Append(tried, ChainTags[i]))

TrySort(sp, i, tried) ==
  IF sp.ret # "True" THEN TryTags(sp.v, i + 1, tried)
  ELSE TrySorted(sortSlices4D(sp.v), i, tried)

TrySorted(so, i, tried) ==
  IF so.ret = "True" THEN [v |-> so.v, ret |-> "True", tried |-> tried]
  ELSE IF so.ret = "raise" THEN [v |-> so.v, ret |-> "raise", tried |-> tried]
  ELSE TryTags(so.v, i + 1, tried)

\* Lines 242-253: one image per temporal group, from group t on.
RECURSIVE StoreFrom(_, _, _, _, _)
StoreFrom(w, groups, t, destination, fname) ==
  IF t > Len(groups) THEN w
  ELSE StoreFrom(store_image(w, destination,
                             [fname EXCEPT !.pos = groups[t].key]),
                 groups, t + 1, destination, fname)

\* The code points of the characters of the keys, in ascending order.
CharOrder ==
  <<" ", "0", "1", "2", "3", "4", "5", "6", "7", "8", "9", "b", "z">>

CharRank(c) == CHOOSE i \in 1..Len(CharOrder) : CharOrder[i] = c

\* a < b for two strings
RECURSIVE StrLess(_, _)
StrLess(a, b) ==
  IF b = <<>> THEN FALSE
  ELSE IF a = <<>> THEN TRUE
  ELSE IF a[1] = b[1] THEN StrLess(Tail(a), Tail(b))
  ELSE CharRank(a[1]) < CharRank(b[1])

\* A numeric key in tenths.
KeyTenths(key) == IF key.k = "int" THEN 10 * key.n ELSE key.n

\* a < b for two keys of a dictionary; between a string and a number the
\* comparison raises TypeError.
Comparable(a, b) == (a.k = "str") <=> (b.k = "str")

KeyLess(a, b) ==
  IF a.k = "str" THEN StrLess(a.s, b.s) ELSE KeyTenths(a) < KeyTenths(b)

\* sorted(keys), by insertion from the left.
RECURSIVE InsertKey(_, _)
InsertKey(x, s) ==
  IF s = <<>> THEN <<x>>
  ELSE IF KeyLess(x, s[Len(s)])
       THEN Append(InsertKey(x, SubSeq(s, 1, Len(s) - 1)), s[Len(s)])
       ELSE Append(s, x)

RECURSIVE SortKeysFrom(_, _)
SortKeysFrom(keys, i) ==
  IF i = 0 THEN <<>> ELSE InsertKey(keys[i], SortKeysFrom(keys, i - 1))

\* The positions of line 229 left in the order of the dictionary.
Positions_FirstSeen(keys) == keys

\* Line 229: list(sorted(ims.keys()))
Positions(keys) == SortKeysFrom(keys, Len(keys))

\* str(p) of a key
KeyStr(key) ==
  CASE key.k = "int" -> DecimalChars(key.n)
    [] key.k = "float" ->
         DecimalChars(key.n \div 10) \o <<".">> \o DecimalChars(key.n % 10)
    [] OTHER -> key.s

\* ','.join(str(p) for p in positions), from position i on
RECURSIVE JoinLabels(_, _)
JoinLabels(positions, i) ==
  IF i > Len(positions) THEN <<>>
  ELSE IF i = Len(positions) THEN KeyStr(positions[i])
  ELSE KeyStr(positions[i]) \o <<",">> \o JoinLabels(positions, i + 1)

\* Line 228: the dictionary of the yielded triples (groups: the keys and
\* slice lists yielded, in their order).  ims[t] is the image of the slice
\* list yielded last with key t.
ImageAt(groups, key) ==
  groups[CHOOSE t \in 1..Len(groups) :
           /\ groups[t].key = key
           /\ \A u \in (t + 1)..Len(groups) : groups[u].key # key].slices

\* Lines 230-234: the combined image of the frames at the positions.
Combined(groups, positions) ==
  [frames |-> [i \in 1..Len(positions) |-> ImageAt(groups, positions[i])],
   FrameLabels |-> JoinLabels(positions, 1),
   NumberOfFrames |-> Len(positions)]

\* Lines 228-234.  "raise": sorted() of keys that cannot be compared, or
\* sitk.Compose([]) of no frame.
Compose4D(groups) ==
  IF groups = <<>>
  THEN [ret |-> "raise", im4d |-> Combined(<<>>, <<>>)]
  ELSE IF \E t, u \in 1..Len(groups) : ~Comparable(groups[t].key, groups[u].key)
  THEN [ret |-> "raise", im4d |-> Combined(<<>>, <<>>)]
  ELSE [ret |-> "True",
        im4d |-> Combined(groups,
                          Positions([t \in 1..Len(groups) |-> groups[t].key]))]

\* Lines 236-239: the combined image is stored.
StoreCombined(w, c, v, tried, destination, fname) ==
  IF c.ret = "raise"
  THEN [w |-> w, v |-> v, ret |-> "raise", tried |-> tried]
  ELSE [w |-> store_image([w EXCEPT !.composed = Append(@, c.im4d)],
                          destination, fname),
        v |-> v, ret |-> "True", tried |-> tried]

\* Lines 226-261, on the outcome g of getSimpleITK4DImage().
StoreFrames(w, g, tried, destination, fname) ==
  IF g.ret = "raise"
  THEN [w |-> w, v |-> g.v, ret |-> "raise", tried |-> tried]
  ELSE IF w.config.combine4d
  THEN StoreCombined(w, Compose4D(IF g.ret = "yield" THEN g.v.slices4D.groups
                                  ELSE <<>>),
                     g.v, tried, destination, fname)
  ELSE IF g.ret = "yield"
  THEN [w |-> StoreFrom(w, g.v.slices4D.groups, 1, destination, fname),
        v |-> g.v, ret |-> "True", tried |-> tried]
  ELSE [w |-> w, v |-> g.v, ret |-> "False", tried |-> tried]

\* Lines 223-225, on the outcome ch of the chain.
AfterChain(w, ch, destination, fname) ==
  IF ch.ret # "True"
  THEN [w |-> w, v |-> ch.v, ret |-> ch.ret, tried |-> ch.tried]
  ELSE IF getOrientation(ch.v).ret = "raise"
  THEN [w |-> w, v |-> ch.v, ret |-> "raise", tried |-> ch.tried]
  ELSE StoreFrames(w, getSimpleITK4DImage(ch.v, "None", NoMaxValue), ch.tried,
                   destination, fname)

process4d(w, v, fname, destination) ==
  AfterChain(w, TryTags(v, 1, <<>>), destination, fname)

\* Lines 193-196: the protocol dump and the counter.
Finish(w, v, tried, destination, fname, els) ==
  IF w.config.dump_protocol
  THEN [w |-> [w EXCEPT !.fs.files = @ \cup {Path(destination, fname, "_protocol.txt")},
                        !.counter = @ + 1],
        v |-> writeProtocol(v, els).v, elements |-> writeProtocol(v, els).elements,
        outcome |-> "done", tried |-> tried]
  ELSE [w |-> [w EXCEPT !.counter = @ + 1], v |-> v, elements |-> els,
        outcome |-> "done", tried |-> tried]

\* Lines 178-182, on the outcome r of _process4d.
After4D(r, destination, fname, els) ==
  IF r.ret = "raise"
  THEN [w |-> r.w, v |-> r.v, elements |-> els, outcome |-> "raise",
        tried |-> r.tried]
  ELSE IF r.ret = "False"
  THEN [w |-> r.w, v |-> r.v, elements |-> els, outcome |-> "not split",
        tried |-> r.tried]
  ELSE Finish(r.w, r.v, r.tried, destination, fname, els)

\* Lines 184-191, on the outcome im of getSimpleITKImage().
After3D(w, im, destination, fname, els) ==
  IF im.ret = "None"
  THEN [w |-> w, v |-> im.v, elements |-> els, outcome |-> "no image",
        tried |-> <<>>]
  ELSE IF getOrientation(im.v).ret = "raise"
  THEN [w |-> w, v |-> im.v, elements |-> els, outcome |-> "raise",
        tried |-> <<>>]
  ELSE Finish(store_image(w, destination, fname), im.v, <<>>, destination,
              fname, els)

\* Lines 177-196, on the volume s as check_4D left it.
Convert(w, s, destination, fname, els) ==
  IF s.is_4D THEN After4D(process4d(w, s, fname, destination), destination, fname, els)
  ELSE After3D(w, getSimpleITKImage(s), destination, fname, els)

\* The body of the try statement of process_volume (lines 157-196); outcome
\* "raise" is an exception leaving the body.
TryProcess(w, v, volume_idx, destination, filename, els) ==
  IF Len(v.slices) = 0
  THEN [w |-> w, v |-> v, elements |-> els, outcome |-> "no files",
        tried |-> <<>>]
  ELSE Convert(w, IF ~v.is_sorted THEN sortSlices(v) ELSE v, destination,
               FileName(IF filename = "None" THEN build_filename(v) ELSE filename,
                        volume_idx, NoPosition),
               els)

\* A handler that lets the exception through.
Except_Propagate(r) == r

\* Lines 198-201 and 310-313: 'except: self.logger.error(...)'.
Except(r) == IF r.outcome = "raise" THEN [r EXCEPT !.outcome = "error"] ELSE r

process_volume(w, v, volume_idx, destination, filename, els) ==
  Except(TryProcess(w, v, volume_idx, destination, filename, els))

\* Lines 297-313.
check_volume(w, v, els) ==
  Except([w |-> w,
          v |-> IF Len(v.slices) = 0 \/ v.is_sorted THEN v ELSE sortSlices(v),
          elements |-> els,
          outcome |-> IF Len(v.slices) = 0 THEN "no files" ELSE "checked",
          tried |-> <<>>])

(***************************************************************************)
(* Walker.run and Walker._process_results.  The source folder is a list of *)
(* directory entries in the order os.walk lists them.                      *)
(***************************************************************************)
\* A file of the folder: the dataset it holds (a file of the table), whether
\* bytes 128-131 read 'DICM', whether it has a SeriesInstanceUID, the name of
\* its SOP class ("None": no SOPClassUID), its Modality and ImageType.
DirEntry(file, header, uid, sop_class, modality, imagetype) ==
  [file |-> file, header |-> header, uid |-> uid, sop_class |-> sop_class,
   modality |-> modality, imagetype |-> imagetype]

DirEntries ==
  << DirEntry(28, TRUE,  TRUE,  "MR Image Storage", "MR",     "ORIGINAL"),
     DirEntry(27, TRUE,  TRUE,  "MR Image Storage", "MR",     "ORIGINAL"),
     DirEntry(26, TRUE,  TRUE,  "MR Image Storage", "MR",     "ORIGINAL"),
     DirEntry(29, TRUE,  TRUE,  "MR Image Storage", "MR",     "ORIGINAL"),
     DirEntry(30, TRUE,  TRUE,  "MR Image Storage", "MR",     "ORIGINAL"),
     DirEntry(34, TRUE,  TRUE,  "MR Image Storage", "MR",     "ORIGINAL"),
     DirEntry(31, TRUE,  TRUE,  "MR Image Storage", "MR",     "ORIGINAL"),
     DirEntry(32, TRUE,  TRUE,  "MR Image Storage", "MR",     "DERIVED"),
     DirEntry(6,  FALSE, TRUE,  "MR Image Storage", "MR",     "ORIGINAL"),
     DirEntry(7,  TRUE,  FALSE, "MR Image Storage", "MR",     "ORIGINAL"),
     DirEntry(8,  TRUE,  TRUE,  "None",             "MR",     "ORIGINAL"),
     DirEntry(9,  TRUE,  TRUE,  "Raw Data Storage", "MR",     "ORIGINAL"),
     DirEntry(10, TRUE,  TRUE,  "MR Image Storage", "MR",     "None"),
     DirEntry(15, TRUE,  TRUE,  "RT Dose Storage",  "RTDOSE", "None") >>

\* 'Image Storage' in sop_class.name
ImageStorage(sop_class) ==
  sop_class \in {"MR Image Storage", "CT Image Storage"}

\* Lines 49-76: the file is passed over (continue).
Skipped(e) ==
  \/ ~e.header
  \/ ~e.uid
  \/ e.sop_class = "None"
  \/ e.modality # "RTDOSE" /\ ~ImageStorage(e.sop_class)

\* Lines 77-84: the image type the volume is keyed by.
ImageTypeOf(e) ==
  IF e.imagetype # "None" THEN e.imagetype
  ELSE IF e.modality = "RTDOSE" THEN "RTDOSE"
  ELSE "UNK"

HasType(volumes, imagetype) ==
  \E k \in 1..Len(volumes) : volumes[k].imagetype = imagetype

\* Lines 89-92, on the volumes of one series (in insertion order).
PlaceRecord(volumes, imagetype, f) ==
  IF ~HasType(volumes, imagetype)
  THEN Append(volumes, [imagetype |-> imagetype, volume |-> NewVolume])
  ELSE [k \in 1..Len(volumes) |->
          IF volumes[k].imagetype = imagetype
          THEN [volumes[k] EXCEPT !.volume = addSlice(@, f)]
          ELSE volumes[k]]

\* Lines 86-92, on the series found so far (in insertion order).
Collect(datasets, series_uid, imagetype, f) ==
  IF ~\E i \in 1..Len(datasets) : datasets[i].series_uid = series_uid
  THEN Append(datasets, [series_uid |-> series_uid,
                         volumes |-> PlaceRecord(<<>>, imagetype, f)])
  ELSE [i \in 1..Len(datasets) |->
          IF datasets[i].series_uid = series_uid
          THEN [datasets[i] EXCEPT !.volumes = PlaceRecord(@, imagetype, f)]
          ELSE datasets[i]]

\* Lines 47-96 for one file of the folder.
ScanEntry(datasets, e) ==
  IF Skipped(e) THEN datasets
  ELSE Collect(datasets, Files[e.file].SeriesInstanceUID, ImageTypeOf(e), e.file)

\* str(getattr(dic_slice, k, None)); a byte string is written b'<its value>'.
StrOf(val) ==
  CASE val.t = "none" -> <<"N", "o", "n", "e">>
    [] val.t = "int" -> DecimalChars(val.n)
    [] val.t = "float" -> DecimalChars(val.n \div 10) \o <<".">> \o DecimalChars(val.n % 10)
    [] val.t = "str" -> val.s
    [] OTHER -> <<"b'">> \o (IF val.n < 0 THEN <<"?">> ELSE DecimalChars(val.n)) \o <<"'">>

\* Lines 128-134: the strings of the slice for the keys.
SetId(f, split_3d_keys) ==
  [k \in 1..Len(split_3d_keys) |-> StrOf(TagValue(f, split_3d_keys[k]))]

\* Lines 127-139: the sub-volumes, in the order their set ids are first seen.
RECURSIVE SubVolumes(_, _, _, _)
SubVolumes(slices, i, split_3d_keys, groups) ==
  IF i > Len(slices)
  THEN [k \in 1..Len(groups) |-> [NewVolume EXCEPT !.slices = groups[k].slices]]
  ELSE SubVolumes(slices, i + 1, split_3d_keys,
                  AppendToGroup(groups, SetId(slices[i], split_3d_keys), slices[i]))

\* Lines 121-141, on the volume s as sortSlices left it.
sub_volumes(s, split_3d_keys) ==
  IF s.is_valid /\ ~s.is_equidistant /\ Len(split_3d_keys) > 0
  THEN SubVolumes(s.slices, 1, split_3d_keys, <<>>)
  ELSE <<s>>

\* Lines 143-149 from sub-volume k on.  st: the walker, the records, the log
\* of the volumes handed to a handler, volume_idx, and whether an exception
\* has left the loop.
Handed(st, r, series_uid, imagetype, slices, handler) ==
  [w |-> r.w, elements |-> r.elements,
   handled |-> Append(st.handled,
                      [series_uid |-> series_uid, imagetype |-> imagetype,
                       slices |-> slices, handler |-> handler,
                       volume_idx |-> st.volume_idx, outcome |-> r.outcome,
                       tried |-> r.tried, v |-> r.v]),
   volume_idx |-> IF r.outcome = "raise" THEN st.volume_idx ELSE st.volume_idx + 1,
   raised |-> r.outcome = "raise"]

RECURSIVE HandleFrom(_, _, _, _, _, _)
HandleFrom(st, subs, k, series_uid, imagetype, kwargs) ==
  IF st.raised \/ k > Len(subs) THEN st
  ELSE HandleFrom(
         Handed(st,
                IF kwargs.just_check
                THEN check_volume(st.w, subs[k], st.elements)
                ELSE process_volume(st.w, subs[k], st.volume_idx,
                                    kwargs.destination, kwargs.filename,
                                    st.elements),
                series_uid, imagetype, subs[k].slices,
                IF kwargs.just_check THEN "check_volume" ELSE "process_volume"),
         subs, k + 1, series_uid, imagetype, kwargs)

\* Lines 118-149 for the volume at (ds, vol) of the run wk: the run and the
\* records afterwards.  s is the volume as sortSlices (line 124) left it,
\* subs its sub-volumes, st the outcome of the loop over them; an exception
\* that leaves a handler ends the run.
AfterHandle(wk, s, subs, st) ==
  [walker |->
     [wk EXCEPT
        !.w = st.w,
        !.handled = st.handled,
        !.datasets[wk.ds].volumes[wk.vol].volume =
           IF subs = <<s>> THEN st.handled[Len(st.handled)].v ELSE s,
        !.phase = IF st.raised THEN "aborted" ELSE @,
        !.vol = IF wk.vol < Len(wk.datasets[wk.ds].volumes) THEN @ + 1 ELSE 1,
        !.ds = IF wk.vol < Len(wk.datasets[wk.ds].volumes) THEN @ ELSE @ + 1,
        !.volume_idx = IF wk.vol < Len(wk.datasets[wk.ds].volumes)
                       THEN st.volume_idx ELSE 0],
   elements |-> st.elements]

HandleSubVolumes(wk, s, subs, els, series_uid, imagetype) ==
  AfterHandle(wk, s, subs,
    HandleFrom([w |-> wk.w, elements |-> els, handled |-> wk.handled,
                volume_idx |-> wk.volume_idx, raised |-> FALSE],
               subs, 1, series_uid, imagetype,
               [wk.kwargs EXCEPT !.filename =
                  IF Len(wk.datasets) > 1 THEN "None" ELSE @]))

HandleVolume(wk, s, els, series_uid, imagetype) ==
  HandleSubVolumes(wk, s, sub_volumes(s, wk.w.config.split_3D), els,
                   series_uid, imagetype)

process_results(wk, els) ==
  HandleVolume(wk, sortSlices(wk.datasets[wk.ds].volumes[wk.vol].volume), els,
               wk.datasets[wk.ds].series_uid,
               wk.datasets[wk.ds].volumes[wk.vol].imagetype)

\* A run of the program: the walker, the arguments of Walker.run, the files
\* of the folder scanned so far (entries of the table), the series found,
\* the volume that _process_results handles next (series ds, volume vol of
\* it) and its volume_idx, and the log of the volumes handed to a handler.
\* phase is "scan" in the loop over the files, "process" in the loop over
\* the volumes, "done" after the return of run and "aborted" after an
\* exception has left it.
StartRun(w, just_check, filename, destination) ==
  [w |-> w,
   kwargs |-> [just_check |-> just_check, filename |-> filename,
               destination |-> destination],
   folder |-> <<>>, datasets |-> <<>>,
   phase |-> "scan", ds |-> 1, vol |-> 1, volume_idx |-> 0, handled |-> <<>>]

\* No run of the program: the volume is driven by its methods.
NoRun ==
  [StartRun(Walker(FALSE, "None", <<>>, FALSE, FALSE, {}), FALSE, "None",
            OutDir)
     EXCEPT !.phase = "idle"]

(***************************************************************************)
(* The state: the series being scanned, its DicomVolume (the field         *)
(* z_indices apart from the others), the files whose dataset holds element *)
(* (0028,0013), and the run of the program.  A                             *)
(* volume receives the files of one series (Walker.run keys the volumes by *)
(* SeriesInstanceUID); every method of the volume can be called at any     *)
(* time, with any argument.  In a run of the program the walker calls the  *)
(* methods, on the volumes it has collected.                               *)
(***************************************************************************)
VARIABLES series, volume, elements, walker, z_indices

vars == <<series, volume, elements, walker, z_indices>>

MaxValues == {NoMaxValue, [isNone |-> FALSE, n |-> 2000]}

Init ==
  /\ series \in SeriesUIDs \ {StackSeries, DynamicSeries, EdgeSeries}
  /\ volume = NewVolume
  /\ elements = Carries00280013
  /\ z_indices = NoIndices
  /\ walker = NoRun

AddSlice ==
  \E f \in FileIds :
    /\ Len(volume.slices) < MaxSlices
    /\ Files[f].SeriesInstanceUID = series
    /\ f \notin Range(volume.slices)
    /\ volume' = addSlice(volume, f)
    /\ UNCHANGED <<series, elements, walker, z_indices>>

SortSlices ==
  /\ volume' = sortSlices(volume)
  /\ UNCHANGED <<series, elements, walker, z_indices>>

GetSimpleITKImage ==
  /\ volume' = getSimpleITKImage(volume).v
  /\ UNCHANGED <<series, elements, walker, z_indices>>

Split4D ==
  \E tag \in SplitTags, max_value \in MaxValues :
    /\ volume' = split4D(volume, tag, max_value).v
    /\ UNCHANGED <<series, elements, walker, z_indices>>

SortSlices4D ==
  /\ volume' = sortSlices4D(volume).v
  /\ UNCHANGED <<series, elements, walker, z_indices>>

GetSimpleITK4DImage ==
  \E tag \in SplitTags \cup {"None"}, max_value \in MaxValues :
    /\ volume' = getSimpleITK4DImage(volume, tag, max_value).v
    /\ UNCHANGED <<series, elements, walker, z_indices>>

WriteProtocol ==
  /\ volume' = writeProtocol(volume, elements).v
  /\ elements' = writeProtocol(volume, elements).elements
  /\ UNCHANGED <<series, walker, z_indices>>

Next ==
  \/ AddSlice
  \/ SortSlices
  \/ GetSimpleITKImage
  \/ Split4D
  \/ SortSlices4D
  \/ GetSimpleITK4DImage
  \/ WriteProtocol

Spec == Init /\ [][Next]_vars

\* The volume under calls of addSlice and sortSlices only.
NextSort ==
  \/ AddSlice
  \/ SortSlices

SpecSort == Init /\ [][NextSort]_vars

\* The lists without repetition of all the files in ids.
Orderings(ids) ==
  {p \in [1..Cardinality(ids) -> ids] :
     \A i, j \in 1..Cardinality(ids) : i # j => p[i] # p[j]}

\* The files of the stack series, and those at its first two locations.
StackFiles == {f \in FileIds : Files[f].SeriesInstanceUID = StackSeries}

LowStackFiles ==
  {f \in StackFiles : Files[f].ImagePositionPatient[3] <= PosScale \div 2}

\* The volume of the stack series after addSlice of all its files (or of
\* those at the first two locations), in any order, then under calls of
\* sortSlices, split4D and sortSlices4D.
InitStacks ==
  /\ series = StackSeries
  /\ elements = Carries00280013
  /\ z_indices = NoIndices
  /\ walker = NoRun
  /\ volume \in {[NewVolume EXCEPT !.slices = p] :
                   p \in Orderings(StackFiles) \cup Orderings(LowStackFiles)}

NextStacks ==
  \/ SortSlices
  \/ Split4D
  \/ SortSlices4D

SpecStacks == InitStacks /\ [][NextStacks]_vars

\* The files of the dynamic series, in the order of the table.
DynamicFiles ==
  SelectSeq([f \in FileIds |-> f],
            LAMBDA f : Files[f].SeriesInstanceUID = DynamicSeries)

\* The list with the entries at i and j exchanged.
Exchange(list, i, j) ==
  [k \in 1..Len(list) |->
     IF k = i THEN list[j] ELSE IF k = j THEN list[i] ELSE list[k]]

\* split4D(0x0019100c, 2000), line 210 of walker.py.
SplitPrivate ==
  /\ volume' = split4D(volume, PrivateBValueTag, ChainMaxValues[2]).v
  /\ UNCHANGED <<series, elements, walker, z_indices>>

\* The volume of the dynamic series after addSlice of all its files, in the
\* order of the table or with two files exchanged, then under the calls
\* that Walker._process4d makes.
InitFallback ==
  /\ series = DynamicSeries
  /\ elements = Carries00280013
  /\ z_indices = NoIndices
  /\ walker = NoRun
  /\ volume \in {[NewVolume EXCEPT !.slices = Exchange(DynamicFiles, i, j)] :
                   i, j \in 1..Len(DynamicFiles)}

NextFallback ==
  \/ SortSlices
  \/ Split4D
  \/ SplitPrivate
  \/ SortSlices4D
  \/ GetSimpleITK4DImage

SpecFallback == InitFallback /\ [][NextFallback]_vars

\* Largest number of files in the source folder.
MaxFiles == 4

\* Files left by an earlier run: the image of the dynamic series in the
\* destination folder, and a file in the working directory that has the
\* bare name of that image.
EarlierImage == Path(OutDir, FileName(DynamicSeries, 0, NoPosition), "nrrd")
BareFile == Path(Cwd, FileName(DynamicSeries, 0, NoPosition), "")

\* The command lines: default options; an earlier image present, without and
\* with --overwrite (and --dump-protocol); a file of the bare name present;
\* --check; --split-tag, --split3d, --combine4d and --name.
Runs ==
  { StartRun(Walker(FALSE, "None", <<>>, FALSE, FALSE, {}),
             FALSE, "None", OutDir),
    StartRun(Walker(FALSE, "None", <<>>, FALSE, FALSE, {EarlierImage}),
             FALSE, "None", OutDir),
    StartRun(Walker(TRUE, "None", <<>>, TRUE, FALSE, {EarlierImage}),
             FALSE, "None", OutDir),
    StartRun(Walker(FALSE, "None", <<>>, FALSE, FALSE, {BareFile}),
             FALSE, "None", OutDir),
    StartRun(Walker(FALSE, "None", <<>>, FALSE, FALSE, {}),
             TRUE, "None", OutDir),
    StartRun(Walker(FALSE, "TemporalPositionIdentifier",
                    <<"TemporalPositionIdentifier">>, FALSE, TRUE, {}),
             FALSE, "scan", OutDir) }

InitWalker ==
  /\ series = DynamicSeries
  /\ volume = NewVolume
  /\ elements = Carries00280013
  /\ z_indices = NoIndices
  /\ walker \in Runs

\* One iteration of the loop over the files of the folder (lines 46-96): the
\* folder holds one more file, an entry of the table after those scanned.
ScanFile ==
  \E e \in DOMAIN DirEntries :
    /\ walker.phase = "scan"
    /\ Len(walker.folder) < MaxFiles
    /\ \A k \in 1..Len(walker.folder) : walker.folder[k] < e
    /\ walker' = [walker EXCEPT !.folder = Append(@, e),
                                !.datasets = ScanEntry(@, DirEntries[e])]
    /\ UNCHANGED <<series, volume, elements, z_indices>>

\* The folder holds no more files; one iteration of the loop over the
\* volumes (lines 118-149).
ProcessResults ==
  /\ walker.phase \in {"scan", "process"}
  /\ walker.ds <= Len(walker.datasets)
  /\ walker' = process_results([walker EXCEPT !.phase = "process"], elements).walker
  /\ elements' = process_results([walker EXCEPT !.phase = "process"], elements).elements
  /\ UNCHANGED <<series, volume, z_indices>>

\* The loops are over: Walker.run returns.
Return ==
  /\ walker.phase \in {"scan", "process"}
  /\ walker.ds > Len(walker.datasets)
  /\ walker' = [walker EXCEPT !.phase = "done"]
  /\ UNCHANGED <<series, volume, elements, z_indices>>

NextWalker ==
  \/ ScanFile
  \/ ProcessResults
  \/ Return

SpecWalker == InitWalker /\ [][NextWalker]_vars

\* get_z_index and get_temporal_position, for the SOPInstanceUID of any file
\* of the series.
GetZIndex ==
  \E f \in FileIds :
    /\ Files[f].SeriesInstanceUID = series
    /\ volume' = get_z_index(volume, z_indices, f).v
    /\ z_indices' = get_z_index(volume, z_indices, f).z
    /\ UNCHANGED <<series, elements, walker>>

GetTemporalPosition ==
  \E f \in FileIds :
    /\ Files[f].SeriesInstanceUID = series
    /\ volume' = get_temporal_position(volume, z_indices, f).v
    /\ z_indices' = get_temporal_position(volume, z_indices, f).z
    /\ UNCHANGED <<series, elements, walker>>

\* The volume under calls of addSlice, the sorters, split4D and the lookups.
NextLookup ==
  \/ AddSlice
  \/ SortSlices
  \/ Split4D
  \/ SortSlices4D
  \/ GetZIndex
  \/ GetTemporalPosition

\* The lookups are followed on the volumes of the diffusion series and of
\* the plain series.
InitLookup ==
  /\ series \in {"DWI", "T1"}
  /\ volume = NewVolume
  /\ elements = Carries00280013
  /\ z_indices = NoIndices
  /\ walker = NoRun

SpecLookup == InitLookup /\ [][NextLookup]_vars

\* The volume of the series with two slices 0.03 mm apart under calls of
\* addSlice, the sorters and split4D.
InitThreshold ==
  /\ series = EdgeSeries
  /\ volume = NewVolume
  /\ elements = Carries00280013
  /\ z_indices = NoIndices
  /\ walker = NoRun

NextThreshold ==
  \/ AddSlice
  \/ SortSlices
  \/ Split4D
  \/ SortSlices4D

SpecThreshold == InitThreshold /\ [][NextThreshold]_vars

\* Largest number of volumes one walker converts outside a run.
MaxConverted == 1

\* The walkers that main builds without and with --combine4d, before a run.
Converters ==
  {[StartRun(Walker(FALSE, "None", <<>>, FALSE, combine4d, {}),
             FALSE, "None", OutDir)
      EXCEPT !.phase = "idle"] : combine4d \in BOOLEAN}

\* process_volume(volume, 0, destination) on the volume of the state.
ProcessVolume ==
  /\ walker.phase = "idle"
  /\ walker.w.counter < MaxConverted
  /\ walker' = [walker EXCEPT !.w =
                  process_volume(walker.w, volume, 0, OutDir, "None", elements).w]
  /\ volume' = process_volume(walker.w, volume, 0, OutDir, "None", elements).v
  /\ elements' = process_volume(walker.w, volume, 0, OutDir, "None", elements).elements
  /\ UNCHANGED <<series, z_indices>>

\* The volume of the dynamic series after addSlice of all its files, in the
\* order of the table or with two files exchanged, under calls of its
\* methods and of Walker.process_volume.
InitCombine ==
  /\ series = DynamicSeries
  /\ elements = Carries00280013
  /\ z_indices = NoIndices
  /\ walker \in Converters
  /\ volume \in {[NewVolume EXCEPT !.slices = Exchange(DynamicFiles, i, j)] :
                   i, j \in 1..Len(DynamicFiles)}

NextCombine ==
  \/ SortSlices
  \/ Split4D
  \/ SortSlices4D
  \/ ProcessVolume

SpecCombine == InitCombine /\ [][NextCombine]_vars

(***************************************************************************)
(* Properties.  A property about a call is stated on the value the call    *)
(* returns from the current state, for every argument the call can take.   *)
(***************************************************************************)
\* The files that addSlice can add to the volume in the current state.
Addable ==
  {f \in FileIds : /\ Files[f].SeriesInstanceUID = series
                   /\ f \notin Range(volume.slices)
                   /\ Len(volume.slices) < MaxSlices}

\* The list is in strictly increasing order of location along the normal of ref.
StrictlyAscending(list, ref) ==
  \A i \in 1..(Len(list) - 1) : Location(list[i], ref) < Location(list[i + 1], ref)

\* Every difference of consecutive locations is the first one within 5e-2.
ConstantStep(list, ref) ==
  \A i \in 1..(Len(list) - 1) :
    CloseStep(Location(list[i + 1], ref) - Location(list[i], ref),
              Location(list[2], ref) - Location(list[1], ref))

\* The slices of all temporal groups of w.
GroupedSlices(w) ==
  UNION {Range(w.slices4D.groups[t].slices) : t \in 1..Len(w.slices4D.groups)}

\* A freshly constructed volume that was given the slices of v, in their order.
Fresh(v) == [NewVolume EXCEPT !.slices = v.slices]

\* C1: a volume of 2 or more slices that sortSlices classifies as valid,
\* equidistant and not 4D is left in strictly increasing order of location
\* (along the normal of the slice that was first when sortSlices computed
\* the locations), with all location differences equal to the first one
\* within 5e-2.
C1_SortedEquidistant ==
  (Len(volume.slices) >= 2 /\ ~volume.is_sorted) =>
    ((sortSlices(volume).is_valid /\ sortSlices(volume).is_equidistant
        /\ ~sortSlices(volume).is_4D) =>
       /\ StrictlyAscending(sortSlices(volume).slices, volume.slices[1])
       /\ ConstantStep(sortSlices(volume).slices, volume.slices[1]))

\* C1 witness: a sorted 3D volume of three slices whose two steps differ.
C1_Witness ==
  /\ Len(volume.slices) = 3
  /\ volume.is_sorted /\ volume.is_valid /\ volume.is_equidistant /\ ~volume.is_4D
  /\ StrictlyAscending(volume.slices, volume.slices[1])
  /\ Location(volume.slices[3], volume.slices[1])
       - Location(volume.slices[2], volume.slices[1])
     # Location(volume.slices[2], volume.slices[1])
       - Location(volume.slices[1], volume.slices[1])

\* The groups of w have one size, and each is in strictly increasing order of
\* location with no difference below 0.03 mm.
GroupsSorted(w) ==
  /\ \A t, u \in 1..Len(w.slices4D.groups) :
       Len(w.slices4D.groups[t].slices) = Len(w.slices4D.groups[u].slices)
  /\ \A t \in 1..Len(w.slices4D.groups) :
       /\ LocationsDefined(w.slices4D.groups[t].slices)
       /\ StrictlyAscending(w.slices4D.groups[t].slices,
                            w.slices4D.groups[t].slices[1])
       /\ \A i \in 1..(Len(w.slices4D.groups[t].slices) - 1) :
            Location(w.slices4D.groups[t].slices[i + 1],
                     w.slices4D.groups[t].slices[1])
              - Location(w.slices4D.groups[t].slices[i],
                         w.slices4D.groups[t].slices[1]) >= ZeroDelta

\* C2: on a 4D volume, when split4D returns true and the following
\* sortSlices4D returns true, all temporal groups have the same number of
\* slices and each group is in strictly increasing order of location with
\* no location difference below 0.03 mm.
C2_GroupsSortedAfterSplit ==
  \A tag \in SplitTags, max_value \in MaxValues :
    (/\ volume.is_4D /\ volume.is_sorted
     /\ split4D(volume, tag, max_value).ret = "True"
     /\ sortSlices4D(split4D(volume, tag, max_value).v).ret = "True") =>
      GroupsSorted(sortSlices4D(split4D(volume, tag, max_value).v).v)

\* Every list handed to _getImage is in strictly increasing order of location.
HandedSorted(r) ==
  \A i \in 1..Len(r.handed) :
    Len(r.handed[i]) >= 2 =>
      /\ LocationsDefined(r.handed[i])
      /\ StrictlyAscending(r.handed[i], r.handed[i][1])

\* C3: in every state that calls of addSlice, sortSlices, split4D,
\* sortSlices4D, getSimpleITKImage and getSimpleITK4DImage can reach, every
\* slice list that getSimpleITKImage or getSimpleITK4DImage (with any
\* splitTag) hands to _getImage is in strictly increasing order of location.
C3_HandedListsSorted ==
  /\ HandedSorted(getSimpleITKImage(volume))
  /\ \A tag \in SplitTags \cup {"None"}, max_value \in MaxValues :
       HandedSorted(getSimpleITK4DImage(volume, tag, max_value))

\* C4: sortSlices is idempotent: a second call leaves the volume (slice
\* order and all flags) as the first call left it, and a call on a volume
\* with is_sorted set changes nothing.
C4_SortIdempotent ==
  /\ sortSlices(sortSlices(volume)) = sortSlices(volume)
  /\ volume.is_sorted => sortSlices(volume) = volume

\* C4 witness: a volume that sortSlices found not equidistant and left
\* unsorted, so that a second call classifies it again.
C4_Witness ==
  /\ Len(volume.slices) >= 3
  /\ volume.is_valid /\ ~volume.is_equidistant /\ ~volume.is_sorted
  /\ ~volume.is_4D
  /\ sortSlices(volume) = volume

\* split4D(tag) followed by sortSlices4D.
SplitAndSort(v, tag, max_value) == sortSlices4D(split4D(v, tag, max_value).v)

\* C5: on a 4D volume, split4D(tag) then sortSlices4D run twice in a row
\* gives the same temporal groups, the same slice order in every group, the
\* same flags and the same return value as the pair run once.
C5_SplitSortIdempotent ==
  \A tag \in SplitTags, max_value \in MaxValues :
    (volume.is_4D /\ volume.is_sorted) =>
      SplitAndSort(SplitAndSort(volume, tag, max_value).v, tag, max_value)
        = SplitAndSort(volume, tag, max_value)

\* C6 (under SpecSort, calls of addSlice and sortSlices only): after
\* sortSlices, is_valid and is_equidistant are what sortSlices
\* computes on a fresh volume holding the same slices: a classification made
\* before the last slice was added does not persist.
C6_ClassificationNotStale ==
  ~volume.is_sorted =>
    /\ sortSlices(volume).is_valid = sortSlices(Fresh(volume)).is_valid
    /\ sortSlices(volume).is_equidistant = sortSlices(Fresh(volume)).is_equidistant

\* C7: when addSlice is called after split4D and sortSlices4D have
\* succeeded, the temporal groups that a following sortSlices4D or
\* getSimpleITK4DImage() works on together contain every slice of the
\* volume, the new one included.
C7_GroupsNotStale ==
  (volume.is_sorted4D /\ GroupedSlices(volume) = Range(volume.slices)) =>
    \A f \in Addable :
      /\ GroupedSlices(sortSlices4D(addSlice(volume, f)).v)
           = Range(addSlice(volume, f).slices)
      /\ \A max_value \in MaxValues :
           getSimpleITK4DImage(addSlice(volume, f), "None", max_value).ret = "yield"
             => GroupedSlices(getSimpleITK4DImage(addSlice(volume, f), "None",
                                                  max_value).v)
                  = Range(addSlice(volume, f).slices)

\* C8: on a volume of fewer than 2 slices sortSlices leaves is_valid,
\* is_equidistant and is_sorted true and is_4D false, whatever attributes the
\* slice has, and leaves the slice list and n_slices as they were.
C8_FewerThanTwoSlices ==
  Len(volume.slices) < 2 =>
    /\ sortSlices(volume).is_valid /\ sortSlices(volume).is_equidistant
    /\ sortSlices(volume).is_sorted /\ ~sortSlices(volume).is_4D
    /\ sortSlices(volume).slices = volume.slices
    /\ sortSlices(volume).n_slices = volume.n_slices

\* C8 witness: a single slice without ImagePositionPatient, PatientName,
\* StudyDate or ImageOrientationPatient, sorted and classified valid.
C8_Witness ==
  /\ Len(volume.slices) = 1
  /\ volume.is_sorted /\ volume.is_valid /\ volume.is_equidistant /\ ~volume.is_4D
  /\ \/ Len(Files[volume.slices[1]].ImagePositionPatient) = 0
     \/ ~Files[volume.slices[1]].PatientName
     \/ ~Files[volume.slices[1]].StudyDate
     \/ Len(Files[volume.slices[1]].ImageOrientationPatient) = 0

\* Some slice has no orientation, or one that is not that of the first slice
\* within rtol 1e-2 (atol 1e-6) in each of the 6 components.
OrientationDefect(slices) ==
  \E i \in 1..Len(slices) :
    \/ Len(Files[slices[i]].ImageOrientationPatient) = 0
    \/ /\ Len(Files[slices[1]].ImageOrientationPatient) > 0
       /\ \E c \in 1..6 :
            1000000 * Abs(Files[slices[1]].ImageOrientationPatient[c]
                          - Files[slices[i]].ImageOrientationPatient[c])
              > CosScale + 10000 * Abs(Files[slices[i]].ImageOrientationPatient[c])

\* C9: on an unsorted volume of 2 or more slices of which one has no
\* orientation or an orientation that is not the first slice's within the
\* tolerance, sortSlices sets is_valid to false and changes nothing else
\* (is_sorted stays false, is_4D, is_equidistant and the order are kept).
C9_OrientationInvalid ==
  (Len(volume.slices) >= 2 /\ ~volume.is_sorted /\ OrientationDefect(volume.slices))
    => sortSlices(volume) = [volume EXCEPT !.is_valid = FALSE]

\* C9 witness: sortSlices has marked invalid a volume whose slices all carry
\* the mandatory attributes and whose third slice has the deviating
\* orientation.
C9_Witness ==
  /\ Len(volume.slices) >= 3
  /\ ~volume.is_valid /\ ~volume.is_sorted
  /\ \A i \in 1..Len(volume.slices) :
       /\ Len(Files[volume.slices[i]].ImagePositionPatient) > 0
       /\ Files[volume.slices[i]].PatientName
       /\ Files[volume.slices[i]].StudyDate
       /\ Len(Files[volume.slices[i]].ImageOrientationPatient) > 0
  /\ ~OrientationDefect(SubSeq(volume.slices, 1, 2))
  /\ OrientationDefect(volume.slices)

\* C10: on a volume of 2 or more slices of which one, at any index, has no
\* ImagePositionPatient, PatientName or StudyDate, sortSlices sets is_valid
\* to false and changes nothing else: no reordering, no slice count.
C10_MissingTagInvalid ==
  (/\ Len(volume.slices) >= 2
   /\ \E i \in 1..Len(volume.slices) :
        \/ Len(Files[volume.slices[i]].ImagePositionPatient) = 0
        \/ ~Files[volume.slices[i]].PatientName
        \/ ~Files[volume.slices[i]].StudyDate)
    => /\ ~sortSlices(volume).is_valid
       /\ sortSlices(volume) = [volume EXCEPT !.is_valid = FALSE]

\* C10 witness: sortSlices has marked invalid a volume whose first slice is
\* complete and whose last slice lacks PatientName or StudyDate.
C10_Witness ==
  /\ Len(volume.slices) >= 2
  /\ ~volume.is_valid /\ ~volume.is_sorted
  /\ Len(Files[volume.slices[1]].ImagePositionPatient) > 0
  /\ Files[volume.slices[1]].PatientName
  /\ Files[volume.slices[1]].StudyDate
  /\ \A i \in 1..Len(volume.slices) :
       Len(Files[volume.slices[i]].ImagePositionPatient) > 0
  /\ \/ ~Files[volume.slices[Len(volume.slices)]].PatientName
     \/ ~Files[volume.slices[Len(volume.slices)]].StudyDate

\* The locations of the slices, along the normal of the first one.
Locs(slices) == {Location(slices[i], slices[1]) : i \in 1..Len(slices)}

\* The pairs of neighbouring locations that are more than 0.03 mm apart.
BoundaryGaps(slices) ==
  {p \in Locs(slices) \X Locs(slices) :
     /\ p[2] - p[1] > ZeroDelta
     /\ ~\E c \in Locs(slices) : p[1] < c /\ c < p[2]}

\* The lowest of these pairs.
FirstGap(slices) ==
  CHOOSE p \in BoundaryGaps(slices) : \A q \in BoundaryGaps(slices) : p[1] <= q[1]

\* Some boundary delta is not the first one within 5e-2.
InconsistentGaps(slices) ==
  /\ BoundaryGaps(slices) # {}
  /\ \E p \in BoundaryGaps(slices) :
       ~CloseStep(p[2] - p[1], FirstGap(slices)[2] - FirstGap(slices)[1])

\* C11: on an unsorted volume of 2 or more slices that passes the validity
\* check and whose boundary deltas are not mutually consistent within 5e-2,
\* sortSlices sets is_equidistant to false and changes nothing else (is_sorted
\* stays false, the slice order is kept), and getSimpleITKImage and
\* getSimpleITK4DImage hand nothing to _getImage and return no image, before
\* and after that sortSlices.
C11_NotEquidistantStops ==
  (/\ Len(volume.slices) >= 2 /\ ~volume.is_sorted
   /\ check_valid(volume.slices)
   /\ InconsistentGaps(volume.slices)) =>
    /\ sortSlices(volume) = [volume EXCEPT !.is_equidistant = FALSE]
    /\ getSimpleITKImage(volume).ret = "None"
    /\ getSimpleITKImage(volume).handed = <<>>
    /\ getSimpleITKImage(sortSlices(volume)).ret = "None"
    /\ \A tag \in SplitTags \cup {"None"}, max_value \in MaxValues :
         /\ getSimpleITK4DImage(volume, tag, max_value).ret = "None"
         /\ getSimpleITK4DImage(volume, tag, max_value).handed = <<>>
         /\ getSimpleITK4DImage(sortSlices(volume), tag, max_value).ret = "None"

\* C11 witness: sortSlices has flagged a valid volume of three distinct
\* locations whose two gaps differ by more than 5e-2, and left it unsorted.
C11_Witness ==
  /\ Len(volume.slices) = 3
  /\ check_valid(volume.slices)
  /\ Cardinality(Locs(volume.slices)) = 3
  /\ InconsistentGaps(volume.slices)
  /\ volume.is_valid /\ ~volume.is_equidistant /\ ~volume.is_sorted
  /\ volume.n_slices = 0

\* Two slices lie at most 0.03 mm apart: some difference of consecutive
\* sorted locations is not a boundary delta.
RepeatedLocation(slices) ==
  \E i, j \in 1..Len(slices) :
    /\ i # j
    /\ Abs(Location(slices[i], slices[1]) - Location(slices[j], slices[1]))
         <= ZeroDelta

\* C12: on an unsorted volume of 2 or more slices that passes the validity
\* check and has consistent boundary deltas, sortSlices leaves is_4D true
\* exactly when a location is repeated and sets n_slices to the number of
\* boundary deltas plus one; a 4D volume whose slice count is not a multiple
\* of n_slices gets is_equidistant false and stays unsorted, in its order;
\* every other volume becomes sorted.
C12_FourDClassification ==
  (/\ Len(volume.slices) >= 2 /\ ~volume.is_sorted
   /\ check_valid(volume.slices)
   /\ ~InconsistentGaps(volume.slices)) =>
    /\ sortSlices(volume).is_4D <=> RepeatedLocation(volume.slices)
    /\ sortSlices(volume).n_slices = Cardinality(BoundaryGaps(volume.slices)) + 1
    /\ (/\ RepeatedLocation(volume.slices)
        /\ Len(volume.slices) % (Cardinality(BoundaryGaps(volume.slices)) + 1) > 0)
         => /\ ~sortSlices(volume).is_equidistant
            /\ ~sortSlices(volume).is_sorted
            /\ sortSlices(volume).slices = volume.slices
    /\ (/\ RepeatedLocation(volume.slices)
        /\ Len(volume.slices) % (Cardinality(BoundaryGaps(volume.slices)) + 1) = 0)
         => /\ sortSlices(volume).is_sorted
            /\ sortSlices(volume).is_equidistant = volume.is_equidistant
    /\ ~RepeatedLocation(volume.slices) => sortSlices(volume).is_sorted

\* C12 witness: sortSlices has classified as 4D a volume with a repeated
\* location and two slices per stack, found its three slices not to fill
\* the stacks, and left it unsorted.
C12_Witness ==
  /\ Len(volume.slices) = 3
  /\ check_valid(volume.slices)
  /\ RepeatedLocation(volume.slices)
  /\ ~InconsistentGaps(volume.slices)
  /\ volume.is_4D /\ volume.n_slices = 2
  /\ ~volume.is_equidistant /\ ~volume.is_sorted

\* The keys that split4D gives the slices for the tag.
KeysOf(slices, tag) ==
  {temporal_position(TagValue(slices[i], tag)) : i \in 1..Len(slices)}

\* The positions in the list of the slices with this key.
StackOf(slices, tag, key) ==
  {i \in 1..Len(slices) : temporal_position(TagValue(slices[i], tag)) = key}

\* The pairs of neighbours in a set of locations.
GapsOf(locs) ==
  {p \in locs \X locs :
     /\ p[1] < p[2]
     /\ ~\E c \in locs : p[1] < c /\ c < p[2]}

NeighbourGaps(slices) == GapsOf(Locs(slices))

\* All gaps are the same, and more than 0.03 mm.
EquallySpaced(gaps) ==
  \A p, q \in gaps : p[2] - p[1] = q[2] - q[1] /\ p[2] - p[1] > ZeroDelta

\* The common gap.
StepOf(gaps) == (CHOOSE p \in gaps : TRUE)[2] - (CHOOSE p \in gaps : TRUE)[1]

\* Every key has one slice at each of the locations.
StacksCover(slices, tag, keys, locs) ==
  /\ Cardinality(keys) >= 2
  /\ Cardinality(locs) >= 2
  /\ \A key \in keys :
       /\ {Location(slices[i], slices[1]) : i \in StackOf(slices, tag, key)} = locs
       /\ Cardinality(StackOf(slices, tag, key)) = Cardinality(locs)

\* The slices form 2 or more stacks, one per value of the tag, that each
\* cover once the same 2 or more locations, which are equally spaced; all
\* slices have the mandatory attributes and one orientation.
InterleavedStacks(slices, tag) ==
  /\ Len(slices) >= 4
  /\ \A i \in 1..Len(slices) :
       /\ HasRequiredTags(slices[i])
       /\ Len(Files[slices[i]].ImageOrientationPatient) > 0
       /\ Files[slices[i]].ImageOrientationPatient
            = Files[slices[1]].ImageOrientationPatient
       /\ HasKey(TagValue(slices[i], tag))
  /\ StacksCover(slices, tag, KeysOf(slices, tag), Locs(slices))
  /\ EquallySpaced(NeighbourGaps(slices))

\* A volume that was given the slices of v and nothing else, after
\* sortSlices, then split4D(tag), then sortSlices4D.
SortedStacks(v) == sortSlices(Fresh(v))

SplitStacks(v, tag, max_value) == split4D(SortedStacks(v), tag, max_value)

SortStacks(v, tag, max_value) == sortSlices4D(SplitStacks(v, tag, max_value).v)

\* w is classified valid, equidistant, 4D and sorted, with n slices a stack.
ClassifiedStacks(w, n) ==
  /\ w.is_4D /\ w.is_sorted /\ w.is_valid /\ w.is_equidistant
  /\ w.n_slices = n

\* The split sp succeeded, with k groups of n slices.
SplitInStacks(sp, k, n) ==
  /\ sp.ret = "True"
  /\ Len(sp.v.slices4D.groups) = k
  /\ \A t \in 1..k : Len(sp.v.slices4D.groups[t].slices) = n

\* The group sort so succeeded, with k groups of n slices, each in ascending
\* order with the given step between consecutive slices.
SortedInStacks(so, k, n, step) ==
  /\ so.ret = "True"
  /\ so.v.is_sorted4D
  /\ so.v.n_pos = k
  /\ Len(so.v.slices4D.groups) = k
  /\ \A t \in 1..k :
       /\ Len(so.v.slices4D.groups[t].slices) = n
       /\ \A i \in 1..(n - 1) :
            Location(so.v.slices4D.groups[t].slices[i + 1],
                     so.v.slices4D.groups[t].slices[1])
              - Location(so.v.slices4D.groups[t].slices[i],
                         so.v.slices4D.groups[t].slices[1]) = step

\* C13: for a volume made of k >= 2 interleaved stacks over the same n >= 2
\* equally spaced locations, each stack with its own value of the tag, in
\* any arrival order: sortSlices classifies it as valid, equidistant, 4D and
\* sorted with n_slices = n; split4D on the tag returns true with k groups of
\* n slices; sortSlices4D returns true and leaves every group in ascending
\* order at the common step.
C13_InterleavedStacks ==
  \A tag \in SplitTags, max_value \in MaxValues :
    InterleavedStacks(volume.slices, tag) =>
      /\ ClassifiedStacks(SortedStacks(volume), Cardinality(Locs(volume.slices)))
      /\ SplitInStacks(SplitStacks(volume, tag, max_value),
                       Cardinality(KeysOf(volume.slices, tag)),
                       Cardinality(Locs(volume.slices)))
      /\ SortedInStacks(SortStacks(volume, tag, max_value),
                        Cardinality(KeysOf(volume.slices, tag)),
                        Cardinality(Locs(volume.slices)),
                        StepOf(NeighbourGaps(volume.slices)))

\* C13 witness: two stacks of three locations that arrived out of order have
\* been classified 4D, split into two groups and group-sorted.
C13_Witness ==
  /\ Len(volume.slices) = 6
  /\ InterleavedStacks(volume.slices, "DiffusionBValue")
  /\ ~StrictlyAscending(SubSeq(volume.slices, 1, 2), volume.slices[1])
  /\ volume.is_4D /\ volume.is_sorted /\ volume.n_slices = 3
  /\ volume.split_tag = "DiffusionBValue"
  /\ volume.is_sorted4D /\ volume.n_pos = 2
  /\ volume = SortStacks(volume, "DiffusionBValue", NoMaxValue).v

\* All slices have the mandatory attributes and one orientation, and no two
\* of them have the same location.
PlainStack(slices) ==
  /\ Len(slices) >= 2
  /\ \A i \in 1..Len(slices) :
       /\ HasRequiredTags(slices[i])
       /\ Len(Files[slices[i]].ImageOrientationPatient) > 0
       /\ Files[slices[i]].ImageOrientationPatient
            = Files[slices[1]].ImageOrientationPatient
  /\ Cardinality(Locs(slices)) = Len(slices)

\* All gaps are the same.
SameGaps(gaps) == \A p, q \in gaps : p[2] - p[1] = q[2] - q[1]

\* w is classified valid, equidistant, 3D and sorted, with n slices in
\* ascending order of location.
ClassifiedPlain(w, n) ==
  /\ w.is_valid /\ w.is_equidistant /\ ~w.is_4D /\ w.is_sorted
  /\ w.n_slices = n
  /\ Len(w.slices) = n
  /\ StrictlyAscending(w.slices, w.slices[1])

\* C14 as stated: a volume of n >= 2 slices with the mandatory attributes,
\* one orientation and distinct, equally spaced locations, given in any
\* order, is classified by sortSlices as valid, equidistant, not 4D and
\* sorted, with n_slices = n and the slices in ascending order.
C14_AnySpacing ==
  (PlainStack(volume.slices) /\ SameGaps(NeighbourGaps(volume.slices))) =>
    ClassifiedPlain(SortedStacks(volume), Len(volume.slices))

\* C14 amended: the same, for locations that are equally spaced more than
\* 0.03 mm apart.
C14_PlainStackSorted ==
  (PlainStack(volume.slices) /\ EquallySpaced(NeighbourGaps(volume.slices))) =>
    /\ ClassifiedPlain(SortedStacks(volume), Len(volume.slices))
    /\ Range(SortedStacks(volume).slices) = Range(volume.slices)

\* C14 witness: three slices 0.5 mm apart that arrived out of order have
\* been sorted and classified.
C14_Witness ==
  /\ Len(volume.slices) = 3
  /\ PlainStack(volume.slices)
  /\ EquallySpaced(NeighbourGaps(volume.slices))
  /\ ClassifiedPlain(volume, 3)
  /\ volume = sortSlices(addSlice(addSlice(addSlice(NewVolume, volume.slices[3]),
                                           volume.slices[1]), volume.slices[2]))

\* The value is an int, a float, a string, or 8 bytes that unpack to a double.
Normalizable(val) ==
  \/ val.t \in {"int", "float", "str"}
  \/ val.t = "bytes" /\ val.n >= 0

\* The groups partition the slices by key: the keys differ, and each group
\* holds the slices that have its key, in the order of the list.
PartitionByKey(groups, slices, tag) ==
  /\ \A t, u \in 1..Len(groups) : t # u => groups[t].key # groups[u].key
  /\ \A t \in 1..Len(groups) :
       /\ groups[t].slices # <<>>
       /\ groups[t].slices
            = SelectSeq(slices,
                        LAMBDA f : temporal_position(TagValue(f, tag)) = groups[t].key)
  /\ \A i \in 1..Len(slices) :
       \E t \in 1..Len(groups) : slices[i] \in Range(groups[t].slices)

\* The outcome sp of split4D on the slices is true exactly when every slice
\* has a normalizable value, and then the groups partition the slices.
SplitPartitions(sp, slices, tag) ==
  /\ sp.ret \in {"True", "False"}
  /\ sp.ret = "True" <=>
       \A i \in 1..Len(slices) : Normalizable(TagValue(slices[i], tag))
  /\ sp.ret = "True" => PartitionByKey(sp.v.slices4D.groups, slices, tag)
  /\ sp.v.split_tag = tag
  /\ sp.v.slices = slices

\* C15: split4D(tag) returns true if and only if every slice of the volume
\* has a value for the tag that can be normalized to a key; when it returns
\* true every slice is in exactly one group, the one whose key is its
\* normalized value, and each group keeps the order the slices have in the
\* volume.
C15_SplitPartition ==
  \A tag \in SplitTags, max_value \in MaxValues :
    SplitPartitions(split4D(volume, tag, max_value), volume.slices, tag)

\* C15 witness: a successful split into two or more groups, one of which
\* holds two slices that are not neighbours in the volume.
C15_Witness ==
  /\ Len(volume.slices) >= 3
  /\ ~volume.slices4D.isNone
  /\ ~volume.is_sorted4D
  /\ volume.split_tag \in SplitTags
  /\ Len(volume.slices4D.groups) >= 2
  /\ split4D(volume, volume.split_tag, NoMaxValue).ret = "True"
  /\ volume.slices4D = split4D(volume, volume.split_tag, NoMaxValue).v.slices4D
  /\ \E t \in 1..Len(volume.slices4D.groups) :
       /\ Len(volume.slices4D.groups[t].slices) >= 2
       /\ volume.slices4D.groups[t].slices[1] = volume.slices[1]
       /\ volume.slices4D.groups[t].slices[2] = volume.slices[3]

\* C16: when split4D is attempted on a tag that a slice of the volume lacks,
\* it returns false and leaves no temporal group that holds slices: a
\* following getSimpleITK4DImage() hands nothing to _getImage and a following
\* sortSlices4D has no group to sort.
C16_FailedSplitAbandoned ==
  \A tag \in SplitTags, max_value \in MaxValues :
    (\E i \in 1..Len(volume.slices) : TagValue(volume.slices[i], tag).t = "none") =>
      /\ split4D(volume, tag, max_value).ret = "False"
      /\ GroupedSlices(split4D(volume, tag, max_value).v) = {}
      /\ GroupedSlices(sortSlices4D(split4D(volume, tag, max_value).v).v) = {}
      /\ getSimpleITK4DImage(split4D(volume, tag, max_value).v, "None",
                             max_value).handed = <<>>

\* The number that a string of decimal digits writes.
RECURSIVE DecimalOf(_)
DecimalOf(s) ==
  IF Len(s) = 0 THEN 0
  ELSE 10 * DecimalOf(SubSeq(s, 1, Len(s) - 1))
         + (CHOOSE d \in 0..9 : Digits[d + 1] = s[Len(s)])

\* The value is a string of decimal digits.
NumericString(val) ==
  /\ val.t = "str"
  /\ Len(val.s) > 0
  /\ \A i \in 1..Len(val.s) : \E d \in 0..9 : Digits[d + 1] = val.s[i]

\* The value is a string with a character that is neither a digit nor a blank.
NonNumericString(val) ==
  /\ val.t = "str"
  /\ \E i \in 1..Len(val.s) :
       val.s[i] # " " /\ \A d \in 0..9 : Digits[d + 1] # val.s[i]

\* The value is the integer n, the decimal n.0 or the numeric string of n.
WritesInteger(val) ==
  \/ val.t = "int" /\ val.n >= 0
  \/ val.t = "float" /\ val.n >= 0 /\ val.n % 10 = 0
  \/ NumericString(val)

IntegerOf(val) ==
  CASE val.t = "int" -> val.n
    [] val.t = "float" -> val.n \div 10
    [] OTHER -> DecimalOf(val.s)

\* Slice f is in the one group that has this key.
InGroupWithKey(groups, f, k, n, s) ==
  \E t \in 1..Len(groups) :
    /\ groups[t].key.k = k /\ groups[t].key.n = n /\ groups[t].key.s = s
    /\ f \in Range(groups[t].slices)
    /\ \A u \in 1..Len(groups) : u # t => groups[u].key # groups[t].key

\* In the outcome sp of a successful split, every slice whose value writes
\* the integer n is in the group with the integer key n, and every slice
\* with a non-numeric string is in the group with that string as key.
NormalizedKeys(sp, slices, tag) ==
  sp.ret = "True" =>
    \A i \in 1..Len(slices) :
      /\ WritesInteger(TagValue(slices[i], tag)) =>
           InGroupWithKey(sp.v.slices4D.groups, slices[i], "int",
                          IntegerOf(TagValue(slices[i], tag)), <<>>)
      /\ NonNumericString(TagValue(slices[i], tag)) =>
           InGroupWithKey(sp.v.slices4D.groups, slices[i], "str", 0,
                          TagValue(slices[i], tag).s)

\* C17: in split4D, for every non-negative integer n, a slice whose value is
\* the numeric string of n, one whose value is the decimal n.0 and one whose
\* value is the integer n are placed in the same temporal group, with key n;
\* a non-numeric string is kept as a string key.
C17_KeyNormalization ==
  \A tag \in SplitTags, max_value \in MaxValues :
    NormalizedKeys(split4D(volume, tag, max_value), volume.slices, tag)

\* C17 witness: a split has put an integer, a decimal and a numeric string
\* into one group.
C17_Witness ==
  /\ ~volume.slices4D.isNone
  /\ volume.split_tag \in SplitTags
  /\ \E t \in 1..Len(volume.slices4D.groups) :
       /\ volume.slices4D.groups[t].key.k = "int"
       /\ {TagValue(f, volume.split_tag).t :
             f \in Range(volume.slices4D.groups[t].slices)}
            = {"int", "float", "str"}

\* The outcome spm of split4D with a max_value is that of split4D without
\* (sp): same return value, same groups, same volume.  The slices it warned
\* about are in their groups, and none of them has a string key.
SameSplit(spm, sp, tag) ==
  /\ spm.ret = sp.ret
  /\ spm.v = sp.v
  /\ sp.warned = <<>>
  /\ \A i \in 1..Len(spm.warned) :
       /\ spm.warned[i] \in GroupedSlices(spm.v)
       /\ temporal_position(TagValue(spm.warned[i], tag)).k # "str"

GroupNotEquidistant(w) ==
  \E t \in 1..Len(w.slices4D.groups) :
    /\ \A u \in 1..t :
         /\ Len(w.slices4D.groups[u].slices) = Len(w.slices4D.groups[1].slices)
         /\ LocationsDefined(w.slices4D.groups[u].slices)
         /\ \A i, j \in 1..Len(w.slices4D.groups[u].slices) :
              i # j =>
                Abs(Location(w.slices4D.groups[u].slices[i],
                             w.slices4D.groups[u].slices[1])
                    - Location(w.slices4D.groups[u].slices[j],
                               w.slices4D.groups[u].slices[1])) >= ZeroDelta
    /\ \A u \in 1..(t - 1) : ~NotEquidistant4D(DeltaSlices(w.slices4D.groups[u].slices))
    /\ Len(w.slices4D.groups[t].slices) >= 3
    /\ NotEquidistant4D(DeltaSlices(w.slices4D.groups[t].slices))

\* C19: sortSlices4D returns true or false on every path, and on a volume
\* with a group whose location deltas are not mutually consistent within
\* 1e-2 it returns false and sets is_equidistant to false.
C19_SortGroupsReturnsBoolean ==
  /\ sortSlices4D(volume).ret \in {"True", "False"}
  /\ (/\ ~volume.is_sorted4D /\ ~volume.slices4D.isNone
      /\ GroupNotEquidistant(volume)) =>
       /\ sortSlices4D(volume).ret = "False"
       /\ ~sortSlices4D(volume).v.is_equidistant

\* C20: whenever sortSlices4D does not return true (unequal group sizes,
\* overlapping locations or locations that are not equidistant in some
\* group), every temporal group has the slice order it had before the call
\* and is_sorted4D stays false.
C20_GroupsKeptOnFailure ==
  (~volume.is_sorted4D /\ sortSlices4D(volume).ret # "True") =>
    /\ sortSlices4D(volume).v.slices4D = volume.slices4D
    /\ ~sortSlices4D(volume).v.is_sorted4D

\* The first slice of the volume has an orientation of 6 components.
SixComponents(v) ==
  /\ Len(v.slices) > 0
  /\ Len(Files[v.slices[1]].ImageOrientationPatient) = 6

\* C21: for every volume whose first slice has an ImageOrientationPatient
\* of 6 components, getOrientation returns 'sag', 'tra' or 'cor' without
\* raising, and leaves the volume as it was.
C21_OrientationTotal ==
  SixComponents(volume) =>
    /\ getOrientation(volume).ret \in {"sag", "tra", "cor"}
    /\ getOrientation(volume).v = volume

\* The label for the orientation (Xx, Xy, Xz, Yx, Yy, Yz), decided in the
\* order sagittal, transversal, coronal.
ThreeWayLabel(o) ==
  IF Abs(o[2]) >= Abs(o[1]) THEN "sag"
  ELSE IF Abs(o[5]) >= Abs(o[6]) THEN "tra"
  ELSE "cor"

\* The volume that holds file f alone.
SingleSlice(f) == addSlice(NewVolume, f)

\* C22: getOrientation returns sagittal when |Xy| >= |Xx|, otherwise
\* transversal when |Yy| >= |Yz|, otherwise coronal, on the cosines of the
\* first slice; and each of the three labels is returned for the orientation
\* of some file.
C22_OrientationThreeWay ==
  /\ SixComponents(volume) =>
       getOrientation(volume).ret
         = ThreeWayLabel(Files[volume.slices[1]].ImageOrientationPatient)
  /\ \A label \in {"sag", "tra", "cor"} :
       \E f \in FileIds :
         /\ Len(Files[f].ImageOrientationPatient) = 6
         /\ getOrientation(SingleSlice(f)).ret = label

\* C23: sortSlices4D on a volume that has temporal groups, whatever they
\* hold (groups of one slice, no group at all), ends with a return value and
\* lets no exception out.
C23_SortGroupsNeverRaises ==
  ~volume.slices4D.isNone =>
    sortSlices4D(volume).ret \in {"True", "False", "None"}

\* The call that turned v into w classified the volume as 4D and sorted.
Sorted4D(v, w) == ~v.is_sorted /\ w.is_sorted /\ w.is_4D

\* C26: a sortSlices that classifies the volume as 4D and marks it sorted
\* leaves the slice list in the order it had and changes nothing but
\* is_sorted, is_4D and n_slices.
C26_FourDNotReordered ==
  Sorted4D(volume, sortSlices(volume)) =>
    /\ sortSlices(volume).slices = volume.slices
    /\ sortSlices(volume) =
         [volume EXCEPT !.is_sorted = TRUE, !.is_4D = TRUE,
                        !.n_slices = sortSlices(volume).n_slices]

\* A 4D volume whose slices are not in order of location is marked sorted.
C26_Witness ==
  /\ Len(volume.slices) >= 4
  /\ check_valid(volume.slices)
  /\ volume.slices # SortByLocation(volume.slices)
  /\ Sorted4D(volume, sortSlices(volume))

\* C25 (as claimed): no step changes a field of a slice record.
C25_RecordsNeverChange == [][elements' = elements]_vars

\* C25: the only change a step makes to a slice record is the removal of
\* element (0028,0013), by writeProtocol, from the records in the slice list
\* of the volume; every other operation, and writeProtocol on every other
\* record, leaves the records as they were.
C25_OnlyProtocolDrops ==
  [][elements' # elements =>
       /\ volume' = writeProtocol(volume, elements).v
       /\ elements' = elements \ Range(volume'.slices)
       /\ elements \ elements' # {}]_vars

\* writeProtocol has removed the element from a record of the volume.
C25_Witness ==
  /\ Len(volume.slices) >= 2
  /\ \E f \in Range(volume.slices) : f \in Carries00280013 /\ f \notin elements

\* The tags that split4D can be given.
AllTags == {ChainTags[i] : i \in 1..Len(ChainTags)}

\* The attempt ended without the groups being sorted (a false or empty
\* return value).
FailedAttempt(a) == a.ret \in {"False", "None"}

\* The attempt returned true and getSimpleITK4DImage yields all its groups.
YieldsAll(b, g) ==
  /\ b.ret = "True"
  /\ g.ret = "yield"
  /\ Len(g.handed) = Len(b.v.slices4D.groups)
  /\ Len(g.handed) >= 2

\* On the sorted volume w: an attempt with tagB after a failed one with tagA.
Recovers(w, tagA, tagB, max_value) ==
  FailedAttempt(SplitAndSort(w, tagA, max_value)) =>
    YieldsAll(SplitAndSort(SplitAndSort(w, tagA, max_value).v, tagB, NoMaxValue),
              getSimpleITK4DImage(
                SplitAndSort(SplitAndSort(w, tagA, max_value).v, tagB, NoMaxValue).v,
                "None", NoMaxValue))

\* C24: on a volume whose frames a tag tagB separates, split4D(tagB) and
\* sortSlices4D after a failed attempt with any tagA return true and
\* getSimpleITK4DImage yields every group; and Walker._process4d, whose
\* chain ends with TemporalPositionIdentifier, converts the volume when that
\* tag separates the frames.
C24_FallbackRecovers ==
  /\ \A tagA \in AllTags, tagB \in AllTags, max_value \in MaxValues :
       InterleavedStacks(volume.slices, tagB) =>
         Recovers(SortedStacks(volume), tagA, tagB, max_value)
  /\ InterleavedStacks(volume.slices, "TemporalPositionIdentifier") =>
       process4d(Walker(FALSE, "None", <<>>, FALSE, FALSE, {}),
                 SortedStacks(volume), FileName(DynamicSeries, 0, NoPosition),
                 OutDir).ret = "True"

\* The tags passed to split4D, in order, when a walker run with
\* --split-tag tag processes a new volume of the slices of v.
TriedWith(v, tag, els) ==
  process_volume(Walker(FALSE, tag, <<>>, FALSE, FALSE, {}), Fresh(v), 0,
                 OutDir, "None", els).tried

\* C27: when the walker is run with --split-tag T and processes a 4D volume,
\* the first split4D is on T, and no other tag is tried when T separates
\* the frames.
C27_SplitTagFirst ==
  \A tag \in SplitTags :
    TriedWith(volume, tag, elements) # <<>> =>
      /\ TriedWith(volume, tag, elements)[1] = tag
      /\ InterleavedStacks(volume.slices, tag) =>
           TriedWith(volume, tag, elements) = <<tag>>

\* C28: without the overwrite option no step of the walker writes an image
\* to a path at which a file exists.
C28_NoOverwriteWithoutOption ==
  [][~walker.w.config.overwrite =>
       \A k \in (Len(walker.w.fs.written) + 1)..Len(walker'.w.fs.written) :
         walker'.w.fs.written[k] \notin walker.w.fs.files]_vars

\* The accepted records among the first n files of the folder that have the
\* key (series_uid, imagetype), in discovery order.
AcceptedWith(folder, n, series_uid, imagetype) ==
  SelectSeq([k \in 1..n |-> folder[k]],
            LAMBDA e : /\ ~Skipped(DirEntries[e])
                       /\ Files[DirEntries[e].file].SeriesInstanceUID = series_uid
                       /\ ImageTypeOf(DirEntries[e]) = imagetype)

RecordsOf(entries) == [k \in 1..Len(entries) |-> DirEntries[entries[k]].file]

\* C29: while Walker.run scans, and when it has scanned the last file, the
\* volume of each key holds the accepted records with that key, once each,
\* in discovery order.
C29_VolumesHoldAllRecords ==
  walker.phase = "scan" =>
    \A i \in 1..Len(walker.datasets) :
      \A k \in 1..Len(walker.datasets[i].volumes) :
        walker.datasets[i].volumes[k].volume.slices
          = RecordsOf(AcceptedWith(walker.folder, Len(walker.folder),
                                   walker.datasets[i].series_uid,
                                   walker.datasets[i].volumes[k].imagetype))

\* The sets of slices that _process_results is to hand over for a volume
\* with these slices: one per set id when the volume is valid and not
\* equidistant and split_3D keys are given, else the whole.
PartsOf(s, split_3d_keys) ==
  IF s.is_valid /\ ~s.is_equidistant /\ Len(split_3d_keys) > 0
  THEN {{f \in Range(s.slices) : SetId(f, split_3d_keys) = SetId(g, split_3d_keys)} :
          g \in Range(s.slices)}
  ELSE {Range(s.slices)}

HandledFor(handled, series_uid, imagetype) ==
  {h \in 1..Len(handled) : /\ handled[h].series_uid = series_uid
                           /\ handled[h].imagetype = imagetype}

\* Each part was handed over once, and nothing else was.
PartsHandledOnce(handled, hs, parts) ==
  /\ Cardinality(hs) = Cardinality(parts)
  /\ \A part \in parts :
       Cardinality({h \in hs : Range(handled[h].slices) = part}) = 1

HandledOnce(wk) ==
  \A i \in 1..Len(wk.datasets) :
    \A k \in 1..Len(wk.datasets[i].volumes) :
      PartsHandledOnce(wk.handled,
                       HandledFor(wk.handled, wk.datasets[i].series_uid,
                                  wk.datasets[i].volumes[k].imagetype),
                       PartsOf(sortSlices(Fresh(wk.datasets[i].volumes[k].volume)),
                               wk.w.config.split_3D))

\* The volumes that the loop of _process_results has not handled yet.
VolumesLeft(wk) ==
  {p \in (1..Len(wk.datasets)) \X (1..MaxFiles) :
     /\ p[2] <= Len(wk.datasets[p[1]].volumes)
     /\ p[1] > wk.ds \/ (p[1] = wk.ds /\ p[2] >= wk.vol)}

\* The steps that the loop of _process_results has left: one per volume,
\* and the return.
StepsLeft(wk) ==
  IF wk.phase \in {"done", "aborted"} THEN 0
  ELSE 1 + Cardinality(VolumesLeft(wk))

\* C30: every step of the loop over the volumes takes one volume off those
\* that are left, whatever happens to the volume it handles, and no
\* exception leaves the loop; so the loop ends after the last volume, and
\* when it has ended every volume, or each of its split_3D sub-volumes, was
\* handed to process_volume or check_volume once.
C30_EveryVolumeHandled ==
  [][walker'.phase # "scan" =>
       /\ walker'.phase # "aborted"
       /\ StepsLeft(walker') < StepsLeft(walker)
       /\ walker'.phase = "done" => HandledOnce(walker')]_vars

\* A run has ended in which a volume failed inside process_volume and a
\* volume after it was converted.
C30_Witness ==
  /\ walker.phase = "done"
  /\ \E h, j \in 1..Len(walker.handled) :
       /\ h < j
       /\ walker.handled[h].outcome = "error"
       /\ walker.handled[j].outcome = "done"

\* The slice count that the locations of the list call for: one more than
\* the number of neighbouring locations more than 0.03 mm apart.
ExtentOf(slices) == Cardinality(BoundaryGaps(slices)) + 1

\* C31: whenever sortSlices ends with is_sorted true on a volume of 2 or
\* more slices (a sort of an unsorted volume, or a call on a volume that is
\* sorted already), n_slices is 1 plus the number of differences of
\* consecutive sorted locations that exceed 0.03 mm, and the number of
\* slices is a multiple of n_slices.
C31_SliceCount ==
  /\ (Len(volume.slices) >= 2 /\ sortSlices(volume).is_sorted) =>
       /\ sortSlices(volume).n_slices = ExtentOf(volume.slices)
       /\ Len(sortSlices(volume).slices) % sortSlices(volume).n_slices = 0
  /\ (Len(volume.slices) >= 2 /\ volume.is_sorted) =>
       /\ volume.n_slices = ExtentOf(volume.slices)
       /\ Len(volume.slices) % volume.n_slices = 0

\* C31 witness: a sorted 4D volume of four slices at two locations.
C31_Witness ==
  /\ Len(volume.slices) = 4
  /\ volume.is_sorted /\ volume.is_4D
  /\ Cardinality(Locs(volume.slices)) = 2
  /\ volume.n_slices = 2

\* The split and the group sort that the groups of w stand for: split4D of
\* the slices of w by the tag of its groups, then sortSlices4D of these.
Resplit(w, max_value) == split4D(w, w.split_tag, max_value)

Resort(w, max_value) ==
  sortSlices4D([Resplit(w, max_value).v EXCEPT !.is_sorted4D = FALSE])

\* The call yields one triple per temporal group of w, in the order of the
\* groups: the slice lists handed to _getImage are those of the groups.
YieldsGroupsOf(r, w) ==
  /\ Len(r.handed) = Len(w.slices4D.groups)
  /\ \A t \in 1..Len(r.handed) : r.handed[t] = w.slices4D.groups[t].slices

\* C32: getSimpleITK4DImage yields only when the volume is valid,
\* equidistant and 4D, the split of its slices by the tag of the groups
\* returns true and the sort of these groups returns true; then it yields
\* one triple per group of that split, in the first-seen key order, the
\* slice count being the length of the sorted group.
C32_YieldsSortedSplit ==
  \A tag \in SplitTags \cup {"None"}, max_value \in MaxValues :
    getSimpleITK4DImage(volume, tag, max_value).handed # <<>> =>
      /\ getSimpleITK4DImage(volume, tag, max_value).v.is_valid
      /\ getSimpleITK4DImage(volume, tag, max_value).v.is_equidistant
      /\ getSimpleITK4DImage(volume, tag, max_value).v.is_4D
      /\ Resplit(getSimpleITK4DImage(volume, tag, max_value).v, max_value).ret = "True"
      /\ Resort(getSimpleITK4DImage(volume, tag, max_value).v, max_value).ret = "True"
      /\ YieldsGroupsOf(getSimpleITK4DImage(volume, tag, max_value),
                        Resort(getSimpleITK4DImage(volume, tag, max_value).v,
                               max_value).v)

\* C33: on a volume that was never split (slices4D is None) sortSlices4D
\* returns False and changes neither a flag nor a group; and in every
\* reachable state is_sorted4D true implies that slices4D is not None.
C33_NeverSplit ==
  /\ volume.slices4D.isNone => sortSlices4D(volume) = [v |-> volume, ret |-> "False"]
  /\ volume.is_sorted4D => ~volume.slices4D.isNone

\* C33 witness: a sorted 4D volume of four slices that was never split.
C33_Witness ==
  /\ volume.slices4D.isNone
  /\ Len(volume.slices) = 4
  /\ volume.is_sorted /\ volume.is_4D
  /\ ~volume.is_sorted4D

\* The keys of the temporal groups.
GroupKeys(groups) == {groups[t].key : t \in 1..Len(groups)}

\* The place of the key among these keys in ascending order.
RankOf(key, keys) == Cardinality({k \in keys : KeyLess(k, key)}) + 1

\* The keys in ascending order.
Ascending(keys) ==
  [i \in 1..Cardinality(keys) |-> CHOOSE k \in keys : RankOf(k, keys) = i]

\* The combined image holds the groups as frames in ascending order of
\* their keys, the labels of the keys in that order, and their number.
CombinesAscending(im4d, groups) ==
  /\ Len(im4d.frames) = Len(groups)
  /\ im4d.NumberOfFrames = Len(groups)
  /\ \A t \in 1..Len(groups) :
       im4d.frames[RankOf(groups[t].key, GroupKeys(groups))] = groups[t].slices
  /\ im4d.FrameLabels = JoinLabels(Ascending(GroupKeys(groups)), 1)

\* The outcome r of _process4d on the walker w: when it returns True, one
\* image was composed, of the temporal groups of the volume.
ComposedRight(r, w) ==
  r.ret = "True" =>
    /\ Len(r.w.composed) = Len(w.composed) + 1
    /\ CombinesAscending(r.w.composed[Len(r.w.composed)], r.v.slices4D.groups)

\* C34: with combine4d, a _process4d that returns True has composed the
\* temporal groups of the volume as frames in ascending order of group key,
\* has written the frame labels in that order, and has recorded as many
\* frames as there are temporal groups.
C34_CombinedAscending ==
  (walker.w.config.combine4d /\ Len(volume.slices) > 0) =>
    ComposedRight(process4d(walker.w,
                            IF ~volume.is_sorted THEN sortSlices(volume) ELSE volume,
                            FileName(build_filename(volume), 0, NoPosition),
                            OutDir),
                  walker.w)

\* C34 witness: process_volume has composed and stored an image of two
\* frames whose groups were first seen in descending order of key.
C34_Witness ==
  /\ walker.w.config.combine4d
  /\ Len(walker.w.composed) = 1
  /\ walker.w.composed[1].NumberOfFrames = 2
  /\ Len(walker.w.fs.written) = 1
  /\ Len(volume.slices4D.groups) = 2
  /\ KeyLess(volume.slices4D.groups[2].key, volume.slices4D.groups[1].key)
  /\ walker.w.composed[1].frames[1] = volume.slices4D.groups[2].slices

\* How often the file occurs in the list.
Count(list, f) == Cardinality({i \in 1..Len(list) : list[i] = f})

\* The two lists hold the same files, each as often.
SameMultiset(a, b) ==
  /\ Len(a) = Len(b)
  /\ \A f \in FileIds : Count(a, f) = Count(b, f)

\* The groups of w are those of v, key by key, with the same slices.
SameGroupMultisets(v, w) ==
  /\ w.slices4D.isNone = v.slices4D.isNone
  /\ Len(w.slices4D.groups) = Len(v.slices4D.groups)
  /\ \A t \in 1..Len(v.slices4D.groups) :
       /\ w.slices4D.groups[t].key = v.slices4D.groups[t].key
       /\ SameMultiset(w.slices4D.groups[t].slices, v.slices4D.groups[t].slices)

\* The position of the file in the list.
IndexOf(list, f) == CHOOSE i \in 1..Len(list) : list[i] = f

\* C35: after any sequence of addSlice, sortSlices, split4D and sortSlices4D
\* calls, sortSlices leaves the multiset of the slices of the volume
\* unchanged and does not touch the groups, and sortSlices4D leaves the
\* multiset of the slices of every temporal group unchanged and does not
\* touch the slice list of the volume, whatever it returns.
C35_NoSliceLostOrDuplicated ==
  /\ SameMultiset(sortSlices(volume).slices, volume.slices)
  /\ sortSlices(volume).slices4D = volume.slices4D
  /\ SameGroupMultisets(volume, sortSlices4D(volume).v)
  /\ sortSlices4D(volume).v.slices = volume.slices

\* C35 witness: sortSlices4D has sorted two groups of two slices each, and
\* two slices of a group stand in the other order in the volume.
C35_Witness ==
  /\ volume.is_sorted4D
  /\ Len(volume.slices) = 4
  /\ Len(volume.slices4D.groups) = 2
  /\ GroupedSlices(volume) = Range(volume.slices)
  /\ \E t \in 1..2 :
       /\ Len(volume.slices4D.groups[t].slices) = 2
       /\ IndexOf(volume.slices, volume.slices4D.groups[t].slices[1])
            > IndexOf(volume.slices, volume.slices4D.groups[t].slices[2])

\* The outcome so of sortSlices4D after a split of the 4D volume v that
\* returned true: when it returns true as well, every temporal group has
\* n_slices slices and n_pos * n_slices is the number of slices of v.
FullFrames(so, v) ==
  so.ret = "True" =>
    /\ \A t \in 1..Len(so.v.slices4D.groups) :
         Len(so.v.slices4D.groups[t].slices) = v.n_slices
    /\ so.v.n_pos * v.n_slices = Len(v.slices)

\* C36: after split4D and sortSlices4D have both returned true on a volume
\* that sortSlices has classified as 4D, every temporal group has exactly
\* n_slices slices, and n_pos * n_slices is the number of slices of the
\* volume.
C36_GroupsHaveExtent ==
  \A tag \in SplitTags, max_value \in MaxValues :
    (/\ volume.is_sorted /\ volume.is_4D
     /\ split4D(volume, tag, max_value).ret = "True") =>
      FullFrames(sortSlices4D(split4D(volume, tag, max_value).v), volume)

\* The groups cover the same locations: they have the same number of
\* slices, and the i-th slices of any two groups lie within 0.03 mm of each
\* other (along the normal of the first slice of the volume).
SameLocations(groups, ref) ==
  \A t, u \in 1..Len(groups) :
    /\ Len(groups[t].slices) = Len(groups[u].slices)
    /\ \A i \in 1..Len(groups[t].slices) :
         i <= Len(groups[u].slices) =>
           Abs(Location(groups[t].slices[i], ref)
                 - Location(groups[u].slices[i], ref)) <= ZeroDelta

\* The outcome so of sortSlices4D after a split of the 4D volume v that
\* returned true: when it returns true as well, the groups cover the same
\* locations.
AlignedFrames(so, v) ==
  so.ret = "True" => SameLocations(so.v.slices4D.groups, v.slices[1])

\* C37: after split4D and sortSlices4D have both returned true on a volume
\* that sortSlices has classified as 4D, all temporal groups cover the same
\* slice locations at the same spacing: the i-th slice of every group lies
\* within 0.03 mm of the i-th slice of every other group.
C37_GroupsCoverSameLocations ==
  \A tag \in SplitTags, max_value \in MaxValues :
    (/\ volume.is_sorted /\ volume.is_4D
     /\ split4D(volume, tag, max_value).ret = "True") =>
      AlignedFrames(sortSlices4D(split4D(volume, tag, max_value).v), volume)

\* The group of the volume that holds the file.
GroupOf(w, f) ==
  CHOOSE t \in 1..Len(w.slices4D.groups) : f \in Range(w.slices4D.groups[t].slices)

\* The outcome r of get_z_index for a slice of the volume: on a sorted 3D
\* volume the index of the slice in the list of the volume, on a
\* group-sorted 4D volume its index in the list of its group (from 0).
IndexRight(r, uid) ==
  /\ (r.v.is_sorted /\ ~r.v.is_4D) =>
       /\ r.ret = "value"
       /\ r.value = IndexOf(r.v.slices, uid) - 1
  /\ (r.v.is_sorted /\ r.v.is_4D /\ r.v.is_sorted4D
      /\ uid \in GroupedSlices(r.v)) =>
       /\ r.ret = "value"
       /\ r.value = IndexOf(r.v.slices4D.groups[GroupOf(r.v, uid)].slices, uid) - 1

\* The outcome r of get_temporal_position for a slice of the volume: 0 on
\* a sorted 3D volume, the key of its group on a group-sorted 4D volume.
TemporalRight(r, uid) ==
  /\ (r.v.is_sorted /\ ~r.v.is_4D) =>
       /\ r.ret = "value"
       /\ r.value = 0
  /\ (r.v.is_sorted /\ r.v.is_4D /\ r.v.is_sorted4D
      /\ uid \in GroupedSlices(r.v)) =>
       /\ r.ret = "value"
       /\ r.value = r.v.slices4D.groups[GroupOf(r.v, uid)].key

\* C38: for every slice of the volume, get_z_index returns its index in the
\* current position-sorted list (of the volume when it is 3D, of its
\* temporal group when the volume is 4D and group-sorted) and
\* get_temporal_position returns 0 (3D) or the key of its group (4D), also
\* when slices were added and the volume was sorted again after an earlier
\* lookup.
C38_LookupsFollowTheLists ==
  \A uid \in Range(volume.slices) :
    /\ IndexRight(get_z_index(volume, z_indices, uid), uid)
    /\ TemporalRight(get_temporal_position(volume, z_indices, uid), uid)

\* Two slices that sortSlices counts as one repeated location: their
\* locations, along the normal of ref, differ by no more than 0.03 mm (the
\* difference is not a boundary of line 158).
RepeatedPair(f, g, ref) ==
  Len(Boundaries(<<Abs(Location(f, ref) - Location(g, ref))>>)) = 0

\* No group holds, at consecutive places, two slices that sortSlices counts
\* as one repeated location.
DistinctPositions(groups) ==
  \A t \in 1..Len(groups) :
    \A i \in 1..(Len(groups[t].slices) - 1) :
      ~RepeatedPair(groups[t].slices[i], groups[t].slices[i + 1],
                    groups[t].slices[1])

\* C39: both sorters apply the 0.03 mm threshold alike: when sortSlices4D
\* checks the groups of a split volume and returns true, no group holds at
\* consecutive places two slices whose location difference sortSlices
\* counts as a repeated location (a difference of at most 0.03 mm, exactly
\* 0.03 mm included).
C39_ThresholdsAgree ==
  (/\ ~volume.slices4D.isNone
   /\ ~volume.is_sorted4D
   /\ sortSlices4D(volume).ret = "True") =>
    DistinctPositions(sortSlices4D(volume).v.slices4D.groups)
====
